---- MODULE Spec2Model ----
(***************************************************************************)
(* Pose-to-skeleton retargeting of the virtual try-on application.         *)
(*                                                                         *)
(* The module models the useBodyModelRigging hook (single-axis ratio       *)
(* mapping with manual override, per-axis Euler smoothing), the React      *)
(* effects that drive it, and the exponential filter it applies.           *)
(*                                                                         *)
(* Numbers.  JavaScript numbers are modelled as exact rationals <<n, d>>   *)
(* in lowest terms with d > 0.  Angles in radians are counted in units of  *)
(* pi (Math.PI is the rational 1), so DEG2RAD is the division by 180 and   *)
(* Math.atan2 is exact on the directions the landmark frames contain.      *)
(* Strings that the code inspects (bone names) are sequences of one-       *)
(* character strings, so toLowerCase and includes are computed.            *)
(***************************************************************************)
EXTENDS Integers, Sequences, FiniteSets, TLC

(***************************************************************************)
(* Bounds of the model.                                                    *)
(***************************************************************************)
\* Number of rigs loaded in a run.
MaxLoads == 2
\* Number of updates (runs of the pose effect that reach the smoothing) in a run.
MaxUpdates == 3
\* Number of filter steps in a run of the filter specification.
MaxFilterSteps == 4
\* Number of video frames in a run of the tracking specification.
MaxVideoFrames == 8
\* Number of bones of a skeleton handed to the resolver.
MaxBones == 2
\* Runs of the jacket's frame effect
MaxJacketFrames == 3
\* Slope of the nearly parallel and nearly opposite direction pairs
MaxSlope == 100
\* Number of body-model loads TryOnCanvas starts in a run.
MaxBodyLoads == 3
\* Number of fabrics added to the app store in a run.
MaxUserFabrics == 2
\* Number of texture loads useTextureSwap starts, and of models it is given, in a run.
MaxTextureLoads == 3
MaxSwapModels == 2

(***************************************************************************)
(* Exact rational arithmetic.                                              *)
(***************************************************************************)
Abs(n) == IF n < 0 THEN -n ELSE n

GCD[a \in Nat, b \in Nat] == IF b = 0 THEN a ELSE GCD[b, a % b]

LCM(a, b) == (a \div GCD[a, b]) * b

\* n/d divided through by g, with the sign in the numerator.
Reduce(n, d, g) == IF d < 0 THEN <<(-n) \div g, (-d) \div g>> ELSE <<n \div g, d \div g>>

Rat(n, d) == Reduce(n, d, GCD[Abs(n), Abs(d)])

RInt(n) == <<n, 1>>
RZero == <<0, 1>>
ROne == <<1, 1>>

\* a + b over the common denominator l.
AddOver(a, b, l) == Rat(a[1] * (l \div a[2]) + b[1] * (l \div b[2]), l)

RAdd(a, b) ==
  IF a[1] = 0 THEN b
  ELSE IF b[1] = 0 THEN a
  ELSE AddOver(a, b, LCM(a[2], b[2]))

RNeg(a) == <<-a[1], a[2]>>
RSub(a, b) == RAdd(a, RNeg(b))

\* a * b with the factors g1 and g2 cancelled crosswise.
MulCross(a, b, g1, g2) ==
  <<(a[1] \div g1) * (b[1] \div g2), (a[2] \div g2) * (b[2] \div g1)>>

RMul(a, b) ==
  IF a[1] = 0 \/ b[1] = 0 THEN RZero
  ELSE MulCross(a, b, GCD[Abs(a[1]), b[2]], GCD[Abs(b[1]), a[2]])

RInv(a) == IF a[1] < 0 THEN <<-a[2], -a[1]>> ELSE <<a[2], a[1]>>
RDiv(a, b) == RMul(a, RInv(b))
RLe(a, b) == RSub(a, b)[1] <= 0
RLt(a, b) == RSub(a, b)[1] < 0
RAbs(a) == <<Abs(a[1]), a[2]>>
RMax(a, b) == IF RLe(a, b) THEN b ELSE a
RMin(a, b) == IF RLe(a, b) THEN a ELSE b

(***************************************************************************)
(* Strings as character sequences: String.toLowerCase, String.includes.    *)
(***************************************************************************)
UpperChars == <<"A","B","C","D","E","F","G","H","I","J","K","L","M",
                "N","O","P","Q","R","S","T","U","V","W","X","Y","Z">>
LowerChars == <<"a","b","c","d","e","f","g","h","i","j","k","l","m",
                "n","o","p","q","r","s","t","u","v","w","x","y","z">>

LowerChar(c) ==
  IF \E i \in 1..26 : UpperChars[i] = c
  THEN LowerChars[CHOOSE i \in 1..26 : UpperChars[i] = c]
  ELSE c

toLowerCase(s) == [i \in 1..Len(s) |-> LowerChar(s[i])]

includes(s, sub) ==
  \E i \in 1..(Len(s) - Len(sub) + 1) : SubSeq(s, i, i + Len(sub) - 1) = sub

(***************************************************************************)
(* Euler triples (three.js Euler: x, y, z in radians, here in units of pi).*)
(***************************************************************************)
Euler(x, y, z) == [x |-> x, y |-> y, z |-> z]

EulerAdd(a, b) == Euler(RAdd(a.x, b.x), RAdd(a.y, b.y), RAdd(a.z, b.z))

\* Degrees to radians conversion: Math.PI / 180, in units of pi.
DEG2RAD == <<1, 180>>

\* Y rotation values discovered via debug sliders (degrees).
Y_ROTATION_ARMS_DOWN == 13
Y_ROTATION_T_POSE == -48

(***************************************************************************)
(* Bone names of the rigs, and the name fragments the bind effect tests.   *)
(***************************************************************************)
S_upperarm == <<"u","p","p","e","r","a","r","m">>
S_lowerarm == <<"l","o","w","e","r","a","r","m">>
S_l == <<"_","l">>
S_r == <<"_","r">>
S_twist == <<"t","w","i","s","t">>
S_corrective == <<"c","o","r","r","e","c","t","i","v","e">>
S_in == <<"_","i","n">>
S_out == <<"_","o","u","t">>
S_fwd == <<"_","f","w","d">>
S_bck == <<"_","b","c","k">>
S_bicep == <<"b","i","c","e","p">>
S_tricep == <<"t","r","i","c","e","p">>

N_upperarm_l == S_upperarm \o S_l
N_upperarm_r == S_upperarm \o S_r
N_lowerarm_l == S_lowerarm \o S_l
N_lowerarm_r == S_lowerarm \o S_r
N_UpperArm_R_1 == <<"U","p","p","e","r","A","r","m","_","R","_","1">>
N_upperarm_l_twist == N_upperarm_l \o <<"_">> \o S_twist \o <<"0","1">>
N_spine_01 == <<"s","p","i","n","e","_","0","1">>

\* The Joint Keys of the hook: the keys of armBonesRef and of smoothRotations.
JointKeys == {"upperarm_l", "upperarm_r", "lowerarm_l", "lowerarm_r"}

(***************************************************************************)
(* Rigs.  A rig (a loaded Group) is the sequence of the skeletons of its   *)
(* SkinnedMesh children in traversal order; a skeleton is the sequence of  *)
(* its bones; a bone has a name and the rotation it was authored with.     *)
(* Every load yields a new Group, so a rig instance is a load number and   *)
(* a bone's identity is <<instance, skeleton, index>>.                     *)
(***************************************************************************)
Bone(name, x, y, z) == [name |-> name, rotation |-> [x |-> x, y |-> y, z |-> z]]

\* An arm armature with a helper bone and without a right forearm.
ArmatureA ==
  << Bone(N_upperarm_l, <<1, 10>>, <<1, 20>>, <<1, 4>>),
     Bone(N_upperarm_r, <<1, 10>>, <<-1, 20>>, <<-1, 4>>),
     Bone(N_lowerarm_l, <<0, 1>>, <<0, 1>>, <<1, 5>>),
     Bone(N_upperarm_l_twist, <<1, 2>>, <<0, 1>>, <<0, 1>>) >>

\* A duplicate of the upper arms: the left one under the same name, the right one
\* under the name a loader gives to a duplicate node; no forearms.
ArmatureB ==
  << Bone(N_upperarm_l, <<1, 10>>, <<1, 20>>, <<1, 4>>),
     Bone(N_UpperArm_R_1, <<1, 10>>, <<-1, 20>>, <<-1, 4>>),
     Bone(N_spine_01, <<0, 1>>, <<0, 1>>, <<0, 1>>) >>

\* A duplicate of the left upper arm that was authored with another rotation.
ArmatureC ==
  << Bone(N_upperarm_l, <<1, 5>>, <<1, 20>>, <<1, 4>>),
     Bone(N_spine_01, <<0, 1>>, <<0, 1>>, <<0, 1>>) >>

\* The assets a Group can be loaded from: the one of MODEL_PATHS (both body types
\* load the same asset), and one whose second armature has an offset.
RigTemplates ==
  [ body_with_jacket |-> <<ArmatureA, ArmatureB>>,
    body_offset_armature |-> <<ArmatureA, ArmatureC>> ]

\* MODEL_PATHS
TemplateNames == {"body_with_jacket"}

\* Every asset.
AllTemplateNames == DOMAIN RigTemplates

\* The transform a Group has when TryOnCanvas hands it to the hook, for an asset
\* whose bounding box is centred on the origin with a largest side of 1.
LoadedTransform ==
  [x |-> <<0, 1>>, y |-> <<0, 1>>, z |-> <<0, 1>>, scale |-> <<1, 1>>, rotationY |-> <<0, 1>>]

(***************************************************************************)
(* Landmark frames (MediaPipe Results).  poseLandmarks is absent when no   *)
(* pose was detected; otherwise it maps landmark indices to positions.     *)
(***************************************************************************)
LEFT_SHOULDER == 11
RIGHT_SHOULDER == 12
LEFT_ELBOW == 13
RIGHT_ELBOW == 14

\* null / undefined and a present value, for the values that may be absent.
None == << >>
Some(v) == <<v>>
Get(o) == o[1]

\* model: Group | null.  A loaded Group is the number of its load.
NoModel == 0

Landmark(x10, y10) == [x |-> Rat(x10, 10), y |-> Rat(y10, 10)]

Pose(ls, rs, le, re) ==
  [poseLandmarks |-> Some((LEFT_SHOULDER :> ls) @@ (RIGHT_SHOULDER :> rs) @@
                          (LEFT_ELBOW :> le) @@ (RIGHT_ELBOW :> re))]

\* Both elbows straight below the shoulders.
FrameArmsDown == Pose(Landmark(3, 4), Landmark(7, 4), Landmark(3, 6), Landmark(7, 6))
\* Both arms horizontal.
FrameTPose == Pose(Landmark(4, 4), Landmark(5, 4), Landmark(2, 4), Landmark(7, 4))
\* One arm 45 degrees below the horizontal, the other straight up.
FrameMixed == Pose(Landmark(3, 4), Landmark(7, 4), Landmark(1, 6), Landmark(7, 2))
\* A result in which no pose was detected.
FrameNoPose == [poseLandmarks |-> None]

Frames == {FrameArmsDown, FrameMixed, FrameNoPose}

\* landmarks?.poseLandmarks
HasPose(lm) == lm # None /\ Get(lm).poseLandmarks # None

(***************************************************************************)
(* The debug store (zustand): the values the hook reads, and one it does   *)
(* not read.                                                               *)
(***************************************************************************)
defaultValues ==
  [ leftUpperArmX |-> 0, leftUpperArmY |-> 0, leftUpperArmZ |-> 0,
    leftLowerArmX |-> 0, leftLowerArmY |-> 0, leftLowerArmZ |-> 0,
    rightUpperArmX |-> 0, rightUpperArmY |-> 0, rightUpperArmZ |-> 0,
    rightLowerArmX |-> 0, rightLowerArmY |-> 0, rightLowerArmZ |-> 0,
    bodyRotationY |-> 0,
    smoothingFactor |-> <<7, 20>>,
    enableTracking |-> TRUE,
    useManualRotations |-> FALSE ]

\* setValue: (key, value) => set((state) => ({ ...state, [key]: value }))
setValue(state, key, value) == [state EXCEPT ![key] = value]

\* resetAll: () => set(defaultValues)
resetAll(state) == defaultValues

\* The writes the debug panel makes in the model: <<key, value>>.
DebugWrites ==
  { <<"useManualRotations", TRUE>>, <<"useManualRotations", FALSE>>,
    <<"enableTracking", FALSE>>,
    <<"leftUpperArmX", 10>> }

(***************************************************************************)
(* Helpers on rigs, sequences and maps.                                    *)
(***************************************************************************)
Range(seq) == {seq[i] : i \in 1..Len(seq)}

\* Map.set(k, v)
MapSet(map, k, v) == [n \in DOMAIN map \cup {k} |-> IF n = k THEN v ELSE map[n]]

EmptyMap == [n \in {} |-> RZero]

\* rg is the sequence of the templates of the rigs loaded so far.
BoneOf(rg, id) == RigTemplates[rg[id[1]]][id[2]][id[3]]

\* model.traverse + skeleton.bones.forEach: the bones of instance i in visiting order.
RECURSIVE TraverseFrom(_, _, _)
TraverseFrom(tpl, i, sk) ==
  IF sk > Len(tpl) THEN << >>
  ELSE [b \in 1..Len(tpl[sk]) |-> <<i, sk, b>>] \o TraverseFrom(tpl, i, sk + 1)

TraverseBones(rg, i) == TraverseFrom(RigTemplates[rg[i]], i, 1)

BoneIds(rg) == UNION {Range(TraverseBones(rg, i)) : i \in 1..Len(rg)}

(***************************************************************************)
(* The bind effect of useBodyModelRigging: find ALL arm bones from all     *)
(* skeletons, capture their rest rotations.                                *)
(***************************************************************************)
\* A matching that excludes no helper bone.
NoHelperExclusion(name) == TRUE

NotHelperBone(name) ==
  /\ ~includes(name, S_twist)
  /\ ~includes(name, S_corrective)
  /\ ~includes(name, S_in)
  /\ ~includes(name, S_out)
  /\ ~includes(name, S_fwd)
  /\ ~includes(name, S_bck)

MatchesUpperArm(name, fragment) ==
  /\ includes(name, fragment)
  /\ NotHelperBone(name)
  /\ ~includes(name, S_bicep)
  /\ ~includes(name, S_tricep)

MatchesLowerArm(name, fragment) ==
  /\ includes(name, fragment)
  /\ NotHelperBone(name)

\* The four arrays of armBones, filled from all in visiting order.
ArmBones(all, rg) ==
  [ upperarm_l |-> SelectSeq(all, LAMBDA id :
        MatchesUpperArm(toLowerCase(BoneOf(rg, id).name), N_upperarm_l)),
    upperarm_r |-> SelectSeq(all, LAMBDA id :
        MatchesUpperArm(toLowerCase(BoneOf(rg, id).name), N_upperarm_r)),
    lowerarm_l |-> SelectSeq(all, LAMBDA id :
        MatchesLowerArm(toLowerCase(BoneOf(rg, id).name), N_lowerarm_l)),
    lowerarm_r |-> SelectSeq(all, LAMBDA id :
        MatchesLowerArm(toLowerCase(BoneOf(rg, id).name), N_lowerarm_r)) ]

FindArmBones(rg, i) == ArmBones(TraverseBones(rg, i), rg)

\* allBones.forEach(bone => restRotationsRef.current.set(bone.name, bone.rotation.clone()))
RECURSIVE CaptureRest(_, _, _, _)
CaptureRest(rest, bones, rg, rot) ==
  IF bones = << >> THEN rest
  ELSE CaptureRest(MapSet(rest, BoneOf(rg, Head(bones)).name, rot[Head(bones)]),
                   Tail(bones), rg, rot)

\* const allBones = [...armBones.upperarm_l, ...armBones.upperarm_r, ...]
AllBones(armBones) ==
  armBones.upperarm_l \o armBones.upperarm_r \o armBones.lowerarm_l \o armBones.lowerarm_r

\* The refs after the bind effect found armBones.
BoundRefs(armBones, rg, r, w) ==
  [ armBonesRef |-> Some(armBones),
    restRotationsRef |-> CaptureRest(r.restRotationsRef, AllBones(armBones), rg, w.rotation),
    initializedRef |-> TRUE ]

\* The refs of the hook: r = [armBonesRef, restRotationsRef, initializedRef].
\* w = [smoothRotations, rotation, transform, written, applied, updates, rigUpdates]
\* is what the effects change besides.  frameRef, which only paces a log line, is
\* left out; rigUpdates counts from the same reset.
BindEffect(m, rg, r, w) ==
  IF m = NoModel THEN [refs |-> r, w |-> w]
  ELSE [ refs |-> BoundRefs(FindArmBones(rg, m), rg, r, w),
         w |-> [w EXCEPT !.rigUpdates = 0] ]

(***************************************************************************)
(* The pose effect of useBodyModelRigging.                                 *)
(***************************************************************************)
\* The hook's third parameter; every caller passes true.
mirrored == TRUE

\* Math.sqrt, on the squares the frames produce.
ISqrt(n) == CHOOSE k \in 0..n : k * k = n
RSqrt(a) == <<ISqrt(a[1]), ISqrt(a[2])>>

\* Math.atan2(dy, dx) in units of pi, on the directions the frames produce.
Atan2(dy, dx) ==
  CASE dx[1] = 0 /\ dy[1] = 0 -> <<0, 1>>
    [] dx[1] = 0 /\ dy[1] > 0 -> <<1, 2>>
    [] dx[1] = 0 /\ dy[1] < 0 -> <<-1, 2>>
    [] dy[1] = 0 /\ dx[1] > 0 -> <<0, 1>>
    [] dy[1] = 0 /\ dx[1] < 0 -> <<1, 1>>
    [] RAbs(dy) = RAbs(dx) /\ dx[1] > 0 /\ dy[1] > 0 -> <<1, 4>>
    [] RAbs(dy) = RAbs(dx) /\ dx[1] > 0 /\ dy[1] < 0 -> <<-1, 4>>
    [] RAbs(dy) = RAbs(dx) /\ dx[1] < 0 /\ dy[1] > 0 -> <<3, 4>>
    [] RAbs(dy) = RAbs(dx) /\ dx[1] < 0 /\ dy[1] < 0 -> <<-3, 4>>

\* A ratio that is not clamped.
NoClamp(lo, hi, v) == v

\* Math.max(lo, Math.min(hi, v))
Clamp(lo, hi, v) == RMax(lo, RMin(hi, v))

\* Arm angle from shoulder to elbow: 0 (arm down) to 1 (arm horizontal/T-pose).
calcArmRatio(shoulder, elbow) ==
  LET dx == RAbs(RSub(elbow.x, shoulder.x))
      dy == RNeg(RSub(elbow.y, shoulder.y))
      angle == Atan2(dy, dx)
      ratio == RDiv(RAdd(angle, <<1, 2>>), <<1, 2>>)
  IN  Clamp(RZero, ROne, ratio)

\* Map ratio (0-1) to Y rotation (13 degrees to -48 degrees), in radians.
mapToYRotation(ratio) ==
  LET yDegrees == RAdd(RInt(Y_ROTATION_ARMS_DOWN),
                       RMul(RInt(Y_ROTATION_T_POSE - Y_ROTATION_ARMS_DOWN), ratio))
  IN  RMul(yDegrees, DEG2RAD)

\* A filter step that moves by (1 + SMOOTH) of the difference.
OvershootStep(smooth, delta, SMOOTH) ==
  RAdd(smooth, RMul(RSub(delta, smooth), RAdd(SMOOTH, ROne)))

\* smooth.x += (xDelta - smooth.x) * SMOOTH
SmoothStep(smooth, delta, SMOOTH) == RAdd(smooth, RMul(RSub(delta, smooth), SMOOTH))

\* A first value interpolated from zero.
FirstSmoothFromZero(xDelta, yDelta, zDelta, SMOOTH) ==
  Euler(RMul(xDelta, SMOOTH), RMul(yDelta, SMOOTH), RMul(zDelta, SMOOTH))

\* smooth = new Euler(xDelta, yDelta, zDelta): the first value of a key.
FirstSmooth(xDelta, yDelta, zDelta, SMOOTH) == Euler(xDelta, yDelta, zDelta)

\* The value of an existing entry after the three += of applyArmRotation.
NextSmooth(smooth, xDelta, yDelta, zDelta, SMOOTH) ==
  Euler(SmoothStep(smooth.x, xDelta, SMOOTH),
        SmoothStep(smooth.y, yDelta, SMOOTH),
        SmoothStep(smooth.z, zDelta, SMOOTH))

\* The smoothed value of a key after one call of applyArmRotation.
Smoothed(smoothRotations, key, xDelta, yDelta, zDelta, SMOOTH) ==
  IF key \notin DOMAIN smoothRotations
  THEN FirstSmooth(xDelta, yDelta, zDelta, SMOOTH)
  ELSE NextSmooth(smoothRotations[key], xDelta, yDelta, zDelta, SMOOTH)

\* bone.rotation.x = rest.x + smooth.x (and y, z)
BoneRotation(rest, smooth) == EulerAdd(rest, smooth)

\* Only the first bone of the array.
FirstBoneOnly(bones) == {bones[1]}

\* The bones of the array that applyArmRotation writes.
BonesToWrite(bones) == Range(bones)

\* bones.forEach: every bone that has a rest rotation is written.
WriteBones(w, rest, rg, hit, key, smooth) ==
  [w EXCEPT
     !.smoothRotations = MapSet(w.smoothRotations, key, smooth),
     !.rotation = [id \in DOMAIN w.rotation |->
                     IF id \in hit
                     THEN BoneRotation(rest[BoneOf(rg, id).name], smooth)
                     ELSE w.rotation[id]],
     !.written = w.written \cup hit]

\* An applyArmRotation without the early return for an empty array.
applyArmRotationNoSkip(w, r, rg, bones, key, xDelta, yDelta, zDelta, SMOOTH) ==
  WriteBones(w, r.restRotationsRef, rg,
             {id \in BonesToWrite(bones) : BoneOf(rg, id).name \in DOMAIN r.restRotationsRef},
             key,
             Smoothed(w.smoothRotations, key, xDelta, yDelta, zDelta, SMOOTH))

applyArmRotation(w, r, rg, bones, key, xDelta, yDelta, zDelta, SMOOTH) ==
  IF Len(bones) = 0 THEN w
  ELSE WriteBones(w, r.restRotationsRef, rg,
                  {id \in BonesToWrite(bones) : BoneOf(rg, id).name \in DOMAIN r.restRotationsRef},
                  key,
                  Smoothed(w.smoothRotations, key, xDelta, yDelta, zDelta, SMOOTH))

\* value * DEG2RAD
Deg(v) == RMul(RInt(v), DEG2RAD)

\* The rotations the manual branch passes to applyArmRotation, by Joint Key.
ManualTargets(dv) ==
  [ upperarm_l |-> Euler(Deg(dv.leftUpperArmX), Deg(dv.leftUpperArmY), Deg(dv.leftUpperArmZ)),
    lowerarm_l |-> Euler(Deg(dv.leftLowerArmX), Deg(dv.leftLowerArmY), Deg(dv.leftLowerArmZ)),
    upperarm_r |-> Euler(Deg(dv.rightUpperArmX), Deg(dv.rightUpperArmY), Deg(dv.rightUpperArmZ)),
    lowerarm_r |-> Euler(Deg(dv.rightLowerArmX), Deg(dv.rightLowerArmY), Deg(dv.rightLowerArmZ)) ]

\* The four calls of the manual branch, in the order of the code.
ApplyManual(w, r, rg, armBones, t, SMOOTH) ==
  applyArmRotation(
    applyArmRotation(
      applyArmRotation(
        applyArmRotation(w, r, rg, armBones.upperarm_l, "upperarm_l",
          t.upperarm_l.x, t.upperarm_l.y, t.upperarm_l.z, SMOOTH),
        r, rg, armBones.lowerarm_l, "lowerarm_l",
        t.lowerarm_l.x, t.lowerarm_l.y, t.lowerarm_l.z, SMOOTH),
      r, rg, armBones.upperarm_r, "upperarm_r",
      t.upperarm_r.x, t.upperarm_r.y, t.upperarm_r.z, SMOOTH),
    r, rg, armBones.lowerarm_r, "lowerarm_r",
    t.lowerarm_r.x, t.lowerarm_r.y, t.lowerarm_r.z, SMOOTH)

ManualMode(m, dv, rg, r, w) ==
  [ApplyManual(w, r, rg, Get(r.armBonesRef), ManualTargets(dv), dv.smoothingFactor)
     EXCEPT !.transform[m].rotationY = RZero,
            !.updates = @ + 1,
            !.rigUpdates = @ + 1]

\* The raw tracked targets of a frame: the Y rotation of the two upper arms.
TrackedTargets(pose) ==
  LET lShoulder == IF mirrored THEN pose[RIGHT_SHOULDER] ELSE pose[LEFT_SHOULDER]
      lElbow == IF mirrored THEN pose[RIGHT_ELBOW] ELSE pose[LEFT_ELBOW]
      rShoulder == IF mirrored THEN pose[LEFT_SHOULDER] ELSE pose[RIGHT_SHOULDER]
      rElbow == IF mirrored THEN pose[LEFT_ELBOW] ELSE pose[RIGHT_ELBOW]
  IN  [ upperarm_l |-> Euler(RZero, mapToYRotation(calcArmRatio(lShoulder, lElbow)), RZero),
        upperarm_r |-> Euler(RZero, mapToYRotation(calcArmRatio(rShoulder, rElbow)), RZero),
        lowerarm_l |-> Euler(RZero, RZero, RZero),
        lowerarm_r |-> Euler(RZero, RZero, RZero) ]

\* Squared length and centre of the shoulder line.
ShoulderWidth(l, r) ==
  RSqrt(RAdd(RMul(RSub(l.x, r.x), RSub(l.x, r.x)), RMul(RSub(l.y, r.y), RSub(l.y, r.y))))

\* Body position and scale, with the viewport constraints.
TrackedTransform(pose) ==
  LET sgn == IF mirrored THEN RInt(-1) ELSE ROne
      shoulderWidth == ShoulderWidth(pose[LEFT_SHOULDER], pose[RIGHT_SHOULDER])
      shoulderCenterX ==
        RMul(RSub(RDiv(RAdd(pose[LEFT_SHOULDER].x, pose[RIGHT_SHOULDER].x), RInt(2)),
                  <<1, 2>>), sgn)
      shoulderCenterY ==
        RNeg(RSub(RDiv(RAdd(pose[LEFT_SHOULDER].y, pose[RIGHT_SHOULDER].y), RInt(2)),
                  <<1, 2>>))
      rawX == RMul(shoulderCenterX, RInt(2))
      rawY == RSub(RMul(shoulderCenterY, RInt(2)), <<5, 2>>)
      rawScale == RMul(shoulderWidth, RInt(8))
  IN  [ x |-> Clamp(<<-3, 5>>, <<3, 5>>, rawX),
        y |-> Clamp(RInt(-7), <<9, 10>>, rawY),
        z |-> RZero,
        scale |-> Clamp(<<3, 5>>, <<9, 5>>, rawScale),
        rotationY |-> RZero ]

\* The four calls of the tracking branch, in the order of the code.
ApplyTracked(w, r, rg, armBones, t, SMOOTH) ==
  applyArmRotation(
    applyArmRotation(
      applyArmRotation(
        applyArmRotation(w, r, rg, armBones.upperarm_l, "upperarm_l",
          t.upperarm_l.x, t.upperarm_l.y, t.upperarm_l.z, SMOOTH),
        r, rg, armBones.upperarm_r, "upperarm_r",
        t.upperarm_r.x, t.upperarm_r.y, t.upperarm_r.z, SMOOTH),
      r, rg, armBones.lowerarm_l, "lowerarm_l",
      t.lowerarm_l.x, t.lowerarm_l.y, t.lowerarm_l.z, SMOOTH),
    r, rg, armBones.lowerarm_r, "lowerarm_r",
    t.lowerarm_r.x, t.lowerarm_r.y, t.lowerarm_r.z, SMOOTH)

\* The tracking branch on the landmark list pose.
Track(m, pose, dv, rg, r, w) ==
  ApplyTracked([w EXCEPT !.applied = @ + 1,
                         !.updates = @ + 1,
                         !.rigUpdates = @ + 1,
                         !.transform[m] = TrackedTransform(pose)],
               r, rg, Get(r.armBonesRef), TrackedTargets(pose), dv.smoothingFactor)

TrackingMode(m, lm, dv, rg, r, w) == Track(m, Get(Get(lm).poseLandmarks), dv, rg, r, w)

\* A pose effect that clears the smoothing state on a frame without a pose.
PoseEffectClearing(m, lm, dv, rg, r, w) ==
  IF m = NoModel \/ ~r.initializedRef THEN w
  ELSE IF r.armBonesRef = None THEN w
  ELSE IF ~dv.enableTracking /\ ~dv.useManualRotations THEN w
  ELSE IF dv.useManualRotations THEN ManualMode(m, dv, rg, r, w)
  ELSE IF ~HasPose(lm) THEN [w EXCEPT !.smoothRotations = EmptyMap]
  ELSE TrackingMode(m, lm, dv, rg, r, w)

\* A pose effect that looks for landmarks before it looks at the manual toggle.
PoseEffectLandmarksFirst(m, lm, dv, rg, r, w) ==
  IF m = NoModel \/ ~r.initializedRef THEN w
  ELSE IF r.armBonesRef = None THEN w
  ELSE IF ~dv.enableTracking /\ ~dv.useManualRotations THEN w
  ELSE IF ~HasPose(lm) THEN w
  ELSE IF dv.useManualRotations THEN ManualMode(m, dv, rg, r, w)
  ELSE TrackingMode(m, lm, dv, rg, r, w)

PoseEffect(m, lm, dv, rg, r, w) ==
  IF m = NoModel \/ ~r.initializedRef THEN w
  ELSE IF r.armBonesRef = None THEN w
  ELSE IF ~dv.enableTracking /\ ~dv.useManualRotations THEN w
  ELSE IF dv.useManualRotations THEN ManualMode(m, dv, rg, r, w)
  ELSE IF ~HasPose(lm) THEN w
  ELSE TrackingMode(m, lm, dv, rg, r, w)

(***************************************************************************)
(* useJacketRigging: the rigged jacket driven by direction retargeting.    *)
(* The frames are planar (z = 0) and the bones are authored with rotations *)
(* about the z axis, so a Quaternion (0, 0, sin(a/2), cos(a/2)) is the     *)
(* angle a, in units of pi, kept in (-2, 2]: a and a + 4 are the same      *)
(* quaternion, a and a + 2 are q and -q.                                   *)
(***************************************************************************)
LEFT_WRIST == 15
RIGHT_WRIST == 16
LEFT_HIP == 23
RIGHT_HIP == 24

\* const ASPECT = 16 / 9 and the aspect of a 4:3 viewport
ASPECT == <<16, 9>>
Aspects == {ASPECT, <<4, 3>>}

\* const SMOOTH = 0.15 of useJacketRigging
JACKET_SMOOTH == <<3, 20>>
BONE_SMOOTH == <<3, 20>>

\* new Quaternion(), Quaternion.identity()
QIdentity == RZero

Wrap4(a) ==
  IF RLt(RInt(2), a) THEN RSub(a, RInt(4))
  ELSE IF RLe(a, RInt(-2)) THEN RAdd(a, RInt(4))
  ELSE a

\* Quaternion.multiply
multiply(a, b) == Wrap4(RAdd(a, b))

\* The arc slerp follows: it negates the target when the dot product is negative.
ShortArc(d) ==
  IF RLt(ROne, d) THEN RSub(d, RInt(2))
  ELSE IF RLt(d, RInt(-1)) THEN RAdd(d, RInt(2))
  ELSE d

\* Quaternion.slerp(qb, t) on qa
slerp(qa, qb, t) == Wrap4(RAdd(qa, RMul(ShortArc(Wrap4(RSub(qb, qa))), t)))

lerp(a, b, t) == RAdd(a, RMul(RSub(b, a), t))

Vec(x, y) == [x |-> x, y |-> y]
VAdd(a, b) == Vec(RAdd(a.x, b.x), RAdd(a.y, b.y))
VSub(a, b) == Vec(RSub(a.x, b.x), RSub(a.y, b.y))
VScale(a, s) == Vec(RMul(a.x, s), RMul(a.y, s))
VDot(a, b) == RAdd(RMul(a.x, b.x), RMul(a.y, b.y))

landmarkTo3D(l) ==
  Vec(RMul(RNeg(RSub(l.x, <<1, 2>>)), RInt(2)), RMul(RNeg(RSub(l.y, <<1, 2>>)), RInt(2)))

landmarkToScreen(l, asp) ==
  Vec(RMul(RMul(RNeg(RSub(l.x, <<1, 2>>)), RInt(2)), asp),
      RMul(RNeg(RSub(l.y, <<1, 2>>)), RInt(2)))

landmarkMidpoint(l1, l2, asp) ==
  VScale(VAdd(landmarkToScreen(l1, asp), landmarkToScreen(l2, asp)), <<1, 2>>)

shoulderTiltAngle(pose) ==
  Atan2(RSub(pose[RIGHT_SHOULDER].y, pose[LEFT_SHOULDER].y),
        RSub(pose[RIGHT_SHOULDER].x, pose[LEFT_SHOULDER].x))

normalizedShoulderWidth(pose) == ShoulderWidth(pose[LEFT_SHOULDER], pose[RIGHT_SHOULDER])

\* (left.z || 0) - (right.z || 0) is 0 on planar frames.
bodyTurnAngle(pose) == RMul(Atan2(RZero, normalizedShoulderWidth(pose)), <<3, 2>>)

\* cos2 > 0.9999 * 0.9999, for 0 <= cos2 <= 1, without leaving 32 bits.
Near1(cos2) ==
  IF cos2[1] = cos2[2] THEN TRUE
  ELSE LET gap == cos2[2] - cos2[1]
           q == cos2[2] \div gap
           rem == cos2[2] % gap
       IN  q > 5000 \/ (q = 5000 /\ 19999 * rem > 5000 * gap)

\* The z component of cross(f, perp), by its sign, for the perp the code picks.
HalfTurnAxis(from) ==
  IF RLt(RMul(RInt(100), RMul(from.x, from.x)), RMul(RInt(81), VDot(from, from)))
  THEN (IF from.y[1] > 0 THEN -1 ELSE 1)
  ELSE (IF from.x[1] > 0 THEN 1 ELSE -1)

\* setFromAxisAngle(cross(f, t).normalize(), acos(dot)): the signed angle from f to t.
AngleBetween(from, to) ==
  ShortArc(Wrap4(RSub(Atan2(to.y, to.x), Atan2(from.y, from.x))))

QuatFromDot(from, to, dot, cos2) ==
  IF dot[1] > 0 /\ Near1(cos2) THEN QIdentity
  ELSE IF dot[1] < 0 /\ Near1(cos2) THEN RInt(HalfTurnAxis(from))
  ELSE AngleBetween(from, to)

quaternionFromDirections(from, to) ==
  QuatFromDot(from, to, VDot(from, to),
              RDiv(RMul(VDot(from, to), VDot(from, to)),
                   RMul(VDot(from, from), VDot(to, to))))

\* A quaternion with its squared length x^2 + y^2 + z^2 + w^2: a rotation has 1.
Quat(angle, lengthSq) == [angle |-> angle, lengthSq |-> lengthSq]

\* Vector3.normalize() divides by (length || 1): a zero vector stays zero.
IsZeroVector(v) == v.x[1] = 0 /\ v.y[1] = 0

\* With a zero vector dot is 0 and cross(f, t).normalize() is the zero vector:
\* setFromAxisAngle(zero, acos(0)) is (0, 0, 0, cos(pi / 4)).
ZeroAxisQuat == Quat(RZero, <<1, 2>>)

\* quaternionFromDirections on every pair of vectors.
quaternionFromDirectionsOf(from, to) ==
  IF IsZeroVector(from) \/ IsZeroVector(to) THEN ZeroAxisQuat
  ELSE Quat(quaternionFromDirections(from, to), ROne)

\* The z component of the axis getRotationBetweenVectors turns by pi about:
\* (1, 0, 0) x f, or (0, 1, 0) x f when the first has lengthSq < 0.001.
BetweenHalfTurnAxis(from) ==
  IF RLt(RMul(RInt(1000), RMul(from.y, from.y)), VDot(from, from))
  THEN (IF from.x[1] > 0 THEN -1 ELSE 1)
  ELSE (IF from.y[1] > 0 THEN 1 ELSE -1)

BetweenFromDot(from, to, dot, cos2) ==
  IF dot[1] > 0 /\ Near1(cos2) THEN QIdentity
  ELSE IF dot[1] < 0 /\ Near1(cos2) THEN RInt(BetweenHalfTurnAxis(from))
  ELSE AngleBetween(from, to)

getRotationBetweenVectors(from, to) ==
  IF IsZeroVector(from) \/ IsZeroVector(to) THEN ZeroAxisQuat
  ELSE Quat(BetweenFromDot(from, to, VDot(from, to),
                           RDiv(RMul(VDot(from, to), VDot(from, to)),
                                RMul(VDot(from, from), VDot(to, to)))),
            ROne)

\* Directions along the axes and the diagonals, and the zero vector.
TableDirections == {Vec(RInt(a), RInt(b)) : a \in -1..1, b \in -1..1}

\* Pairs within the 0.9999 thresholds without being parallel or opposite.
NearPairs ==
  { <<Vec(RZero, ROne), Vec(ROne, RInt(-MaxSlope))>>,
    <<Vec(ROne, RZero), Vec(RInt(-MaxSlope), ROne)>>,
    <<Vec(RInt(MaxSlope), ROne), Vec(RInt(-1), RZero)>>,
    <<Vec(RZero, ROne), Vec(ROne, RInt(MaxSlope))>> }

DirectionPairs == (TableDirections \X TableDirections) \cup NearPairs

\* Landmarks in hundredths of the image.
Lm(x100, y100) == [x |-> Rat(x100, 100), y |-> Rat(y100, 100)]

JacketPose(ls, rs, le, re, lw, rw, lh, rh) ==
  (LEFT_SHOULDER :> ls) @@ (RIGHT_SHOULDER :> rs) @@ (LEFT_ELBOW :> le) @@
  (RIGHT_ELBOW :> re) @@ (LEFT_WRIST :> lw) @@ (RIGHT_WRIST :> rw) @@
  (LEFT_HIP :> lh) @@ (RIGHT_HIP :> rh)

\* Every limb along the rest direction the hook assumes for it.
PoseBind ==
  JacketPose(Lm(40, 40), Lm(60, 40), Lm(50, 50), Lm(50, 50),
             Lm(59, 54), Lm(41, 54), Lm(45, 70), Lm(55, 70))
\* Upper arms horizontal, the right forearm opposite to its rest direction,
\* the torso leaning by 45 degrees.
PoseLean ==
  JacketPose(Lm(40, 40), Lm(60, 40), Lm(30, 40), Lm(70, 40),
             Lm(39, 44), Lm(79, 36), Lm(15, 70), Lm(25, 70))

Without(pose, joint) == [k \in DOMAIN pose \ {joint} |-> pose[k]]

FrameBind == [poseLandmarks |-> Some(PoseBind)]
FrameLean == [poseLandmarks |-> Some(PoseLean)]
\* Results whose landmark list lacks a joint the solver reads.
FrameNoWrist == [poseLandmarks |-> Some(Without(PoseLean, LEFT_WRIST))]
FrameNoShoulder == [poseLandmarks |-> Some(Without(PoseLean, LEFT_SHOULDER))]

JacketFrames == {FrameBind, FrameLean, FrameNoWrist, FrameNoShoulder, FrameNoPose}

\* pose[i] is undefined: reading a coordinate of it throws a TypeError.
Missing(pose, joints) == ~(joints \subseteq DOMAIN pose)

N_UpperArm_L == <<"U","p","p","e","r","A","r","m","_","L">>
N_spine_02 == <<"s","p","i","n","e","_","0","2">>
N_spine_03 == <<"s","p","i","n","e","_","0","3">>

\* A Bone of a jacket asset: its name and the quaternion it is authored with.
JBone(name, q) == [name |-> name, quaternion |-> q]

JacketSkeleton ==
  << JBone(N_spine_01, <<1, 10>>), JBone(N_upperarm_l, <<1, 4>>),
     JBone(N_lowerarm_l, <<1, 20>>), JBone(N_upperarm_r, <<-1, 4>>) >>

VestSkeleton == << JBone(N_spine_01, <<-1, 10>>) >>

\* A skeleton whose exporter capitalised a bone name.
CapitalSkeleton == << JBone(N_UpperArm_L, <<1, 4>>), JBone(N_lowerarm_l, <<1, 20>>) >>

\* Assets by the skeletons of their SkinnedMeshes, in traversal order: the
\* rigged jacket, a rigged garment with another skeleton, and a garment of
\* plain Meshes.
JacketTemplates ==
  [ jacket_rigged |-> <<JacketSkeleton>>,
    vest_rigged |-> <<VestSkeleton>>,
    jacket_capitals |-> <<CapitalSkeleton>>,
    jacket_static |-> << >> ]

JacketTemplateNames == DOMAIN JacketTemplates

\* The transform of the Group after TryOnCanvas normalised and centred it.
LoadedJacketTransform ==
  [ x |-> RZero, y |-> <<1, 10>>, scale |-> ROne,
    rotationX |-> RZero, rotationY |-> RZero, rotationZ |-> RZero ]

\* A skeleton is <<rig instance, index among the rig's skeletons>>; a bone of it
\* is <<rig instance, skeleton index, bone index>>.
SkeletonBones(rg, sk) == JacketTemplates[rg[sk[1]]][sk[2]]

JacketBoneIds(rg) ==
  {id \in (1..Len(rg)) \X (1..1) \X (1..4) :
     /\ id[2] <= Len(JacketTemplates[rg[id[1]]])
     /\ id[3] <= Len(JacketTemplates[rg[id[1]]][id[2]])}

\* jacketModel.traverse: the skeleton of the last SkinnedMesh visited, 0 for null.
LastSkeleton(rg, m) == Len(JacketTemplates[rg[m]])

\* skeleton.bones.forEach(bone => restPoses.set(bone.name, bone.quaternion.clone()))
RECURSIVE StoreRestPoses(_, _, _, _, _)
StoreRestPoses(restPoses, bones, sk, i, quat) ==
  IF i > Len(bones) THEN restPoses
  ELSE StoreRestPoses(MapSet(restPoses, bones[i].name, quat[<<sk[1], sk[2], i>>]),
                      bones, sk, i + 1, quat)

\* The skeleton effect.  jr holds skeletonRef and restPosesRef.
SkeletonEffect(m, rg, quat, jr) ==
  IF m = NoModel THEN jr
  ELSE IF LastSkeleton(rg, m) = 0
       THEN [jr EXCEPT !.logged = @ \cup {"warn"}]
       ELSE [ skeletonRef |-> Some(<<m, LastSkeleton(rg, m)>>),
              restPosesRef |-> StoreRestPoses(EmptyMap,
                                 SkeletonBones(rg, <<m, LastSkeleton(rg, m)>>),
                                 <<m, LastSkeleton(rg, m)>>, 1, quat),
              logged |-> jr.logged ]

\* findBone: the index of the first bone of that name, letter case aside; 0 for null.
findBone(bones, name) ==
  IF \E i \in 1..Len(bones) : toLowerCase(bones[i].name) = toLowerCase(name)
  THEN CHOOSE i \in 1..Len(bones) :
         /\ toLowerCase(bones[i].name) = toLowerCase(name)
         /\ \A k \in 1..(i - 1) : toLowerCase(bones[k].name) # toLowerCase(name)
  ELSE 0

\* The position, scale and rotation the frame asks of the whole model.
ModelTargets(pose, asp) ==
  [ x |-> landmarkMidpoint(pose[LEFT_SHOULDER], pose[RIGHT_SHOULDER], asp).x,
    y |-> RSub(landmarkMidpoint(pose[LEFT_SHOULDER], pose[RIGHT_SHOULDER], asp).y,
               <<3, 20>>),
    scale |-> RMul(normalizedShoulderWidth(pose), RInt(5)),
    rotZ |-> shoulderTiltAngle(pose),
    rotY |-> bodyTurnAngle(pose) ]

LerpTransform(p, t, f) ==
  [ x |-> lerp(p.x, t.x, f), y |-> lerp(p.y, t.y, f),
    scale |-> lerp(p.scale, t.scale, f),
    rotZ |-> lerp(p.rotZ, t.rotZ, f), rotY |-> lerp(p.rotY, t.rotY, f) ]

\* jacketModel.position.copy, scale.setScalar, rotation.set(Math.PI, rotY, rotZ)
PlaceModel(m, j, p) ==
  [j EXCEPT !.initialized = TRUE,
            !.prev = p,
            !.transform[m] = [ x |-> p.x, y |-> p.y, scale |-> p.scale,
                               rotationX |-> ROne, rotationY |-> p.rotY,
                               rotationZ |-> p.rotZ ]]

\* 1. Position & Scale (whole model)
MoveModel(m, j, t) ==
  PlaceModel(m, j, LerpTransform(IF j.initialized THEN j.prev ELSE t, t,
                                 RSub(ROne, JACKET_SMOOTH)))

\* prevBones.current.set(bone.name, {rotation: rest ? rest.clone() : bone.quaternion.clone()})
RECURSIVE SetBoneStates(_, _, _, _, _, _)
SetBoneStates(states, bones, sk, i, rest, quat) ==
  IF i > Len(bones) THEN states
  ELSE SetBoneStates(MapSet(states, bones[i].name,
                            IF bones[i].name \in DOMAIN rest THEN rest[bones[i].name]
                            ELSE quat[<<sk[1], sk[2], i>>]),
                     bones, sk, i + 1, rest, quat)

\* Initialize bone states
InitBoneStates(j, sk, bones, rest) ==
  IF j.bonesInitialized THEN j
  ELSE [j EXCEPT !.bonesInitialized = TRUE,
                 !.prevBones = SetBoneStates(j.prevBones, bones, sk, 1, rest, j.quaternion)]

\* bone.quaternion.copy(q), and prev.rotation is q when the bone name has a state.
WriteBone(j, id, boneName, q, targetQuat) ==
  [j EXCEPT !.quaternion[id] = q,
            !.prevBones = IF boneName \in DOMAIN @ THEN MapSet(@, boneName, q) ELSE @,
            !.written = @ \cup {id},
            !.targets = MapSet(@, boneName, targetQuat)]

ApplyToBone(j, sk, b, boneName, targetQuat) ==
  IF b = 0 THEN j
  ELSE WriteBone(j, <<sk[1], sk[2], b>>, boneName,
                 IF boneName \in DOMAIN j.prevBones
                 THEN slerp(j.prevBones[boneName], targetQuat, RSub(ROne, BONE_SMOOTH))
                 ELSE targetQuat,
                 targetQuat)

applyBoneRotation(j, sk, bones, boneName, targetQuat) ==
  ApplyToBone(j, sk, findBone(bones, boneName), boneName, targetQuat)

\* restPosesRef.current.get(name) || new Quaternion()
RestOrIdentity(rest, name) == IF name \in DOMAIN rest THEN rest[name] ELSE QIdentity

\* copy(rest).multiply(quaternionFromDirections(restDir, to - from))
LimbTarget(rest, name, restDir, from, to) ==
  multiply(RestOrIdentity(rest, name),
           quaternionFromDirections(restDir, VSub(landmarkTo3D(to), landmarkTo3D(from))))

Midpoint3D(l1, l2) == VScale(VAdd(landmarkTo3D(l1), landmarkTo3D(l2)), <<1, 2>>)

\* identity().slerp(quaternionFromDirections((0, 1, 0), torsoDir), 0.3)
spinePartial(pose) ==
  slerp(QIdentity,
        quaternionFromDirections(Vec(RZero, ROne),
          VSub(Midpoint3D(pose[LEFT_SHOULDER], pose[RIGHT_SHOULDER]),
               Midpoint3D(pose[LEFT_HIP], pose[RIGHT_HIP]))),
        <<3, 10>>)

\* Spine / Torso
Spine(j, sk, bones, q) ==
  applyBoneRotation(
    applyBoneRotation(
      applyBoneRotation(j, sk, bones, N_spine_01, q),
      sk, bones, N_spine_02, q),
    sk, bones, N_spine_03, q)

\* Right Arm
RightArm(pose, sk, bones, rest, j) ==
  IF Missing(pose, {RIGHT_ELBOW, RIGHT_WRIST}) THEN [j EXCEPT !.logged = @ \cup {"error"}]
  ELSE applyBoneRotation(
         applyBoneRotation(j, sk, bones, N_upperarm_r,
           LimbTarget(rest, N_upperarm_r, Vec(<<7, 10>>, <<-7, 10>>),
                      pose[RIGHT_SHOULDER], pose[RIGHT_ELBOW])),
         sk, bones, N_lowerarm_r,
         LimbTarget(rest, N_lowerarm_r, Vec(<<9, 10>>, <<-4, 10>>),
                    pose[RIGHT_ELBOW], pose[RIGHT_WRIST]))

\* Left Arm
LeftArm(pose, sk, bones, rest, j) ==
  IF Missing(pose, {LEFT_ELBOW, LEFT_WRIST}) THEN [j EXCEPT !.logged = @ \cup {"error"}]
  ELSE RightArm(pose, sk, bones, rest,
         applyBoneRotation(
           applyBoneRotation(j, sk, bones, N_upperarm_l,
             LimbTarget(rest, N_upperarm_l, Vec(<<-7, 10>>, <<-7, 10>>),
                        pose[LEFT_SHOULDER], pose[LEFT_ELBOW])),
           sk, bones, N_lowerarm_l,
           LimbTarget(rest, N_lowerarm_l, Vec(<<-9, 10>>, <<-4, 10>>),
                      pose[LEFT_ELBOW], pose[LEFT_WRIST])))

SpineAndArms(pose, sk, bones, rest, j) ==
  IF Missing(pose, {LEFT_HIP, RIGHT_HIP}) THEN [j EXCEPT !.logged = @ \cup {"error"}]
  ELSE LeftArm(pose, sk, bones, rest, Spine(j, sk, bones, spinePartial(pose)))

\* 2. Bone-level rigging
BoneRigging(pose, rg, jr, j) ==
  IF jr.skeletonRef = None THEN j
  ELSE SpineAndArms(pose, Get(jr.skeletonRef), SkeletonBones(rg, Get(jr.skeletonRef)),
                    jr.restPosesRef,
                    InitBoneStates(j, Get(jr.skeletonRef),
                                   SkeletonBones(rg, Get(jr.skeletonRef)), jr.restPosesRef))

\* The body of the try block.
TryFrame(m, pose, asp, rg, jr, j) ==
  IF Missing(pose, {LEFT_SHOULDER, RIGHT_SHOULDER}) THEN [j EXCEPT !.logged = @ \cup {"error"}]
  ELSE BoneRigging(pose, rg, jr, MoveModel(m, j, ModelTargets(pose, asp)))

\* The frame effect.
FrameEffect(m, lm, asp, rg, jr, j) ==
  IF m = NoModel \/ ~HasPose(lm) THEN j
  ELSE TryFrame(m, Get(Get(lm).poseLandmarks), asp, rg, jr,
                [j EXCEPT !.frameCount = @ + 1])

(***************************************************************************)
(* TryOnCanvas and JacketModel: loading and disposing models.  Every load  *)
(* yields a new Group, so a loaded body Group is the number of its load.   *)
(***************************************************************************)
BodyModelTypes == {"male", "female"}

MODEL_PATHS == [t \in BodyModelTypes |-> "/models/body_with_jacket.glb"]

FALLBACK_MODEL == "/models/body_with_jacket.glb"

JACKET_PATH == "/models/jacket_rigged.glb"

\* loader.load(path, ...): one more request; run is the run of the load effect
\* that it belongs to.
StartLoad(loads, path, run) ==
  Append(loads, [path |-> path, status |-> "pending", run |-> run])

\* The run of the load effect that is current.
LastRun(loads) ==
  CHOOSE r \in {loads[i].run : i \in DOMAIN loads} :
    \A i \in DOMAIN loads : loads[i].run <= r

\* The cleanup of a load effect: it disposes the Group its closure captured, if any.
DisposeModel(captured, d) ==
  IF captured = None THEN d ELSE d \cup {Get(captured)}

(***************************************************************************)
(* The app store (zustand): fabrics.  A FabricTexture keeps the fields the *)
(* store and useTextureSwap read; an optional field is None when absent.   *)
(***************************************************************************)
ColorFabric(id, color) ==
  [id |-> id, type |-> "color", color |-> Some(color), textureUrl |-> None,
   isUserUploaded |-> None]

TextureFabric(id, url, color) ==
  [id |-> id, type |-> "texture", color |-> Some(color), textureUrl |-> Some(url),
   isUserUploaded |-> None]

PREDEFINED_FABRICS ==
  << ColorFabric("navy-blue", "#1e3a5f"),
     ColorFabric("charcoal", "#36454f"),
     ColorFabric("burgundy", "#722f37"),
     ColorFabric("forest-green", "#228b22"),
     ColorFabric("black", "#1a1a1a"),
     TextureFabric("denim", "/textures/denim.jpg", "#4a6fa5"),
     TextureFabric("tweed", "/textures/tweed.jpg", "#8b7355") >>

\* The fabrics handed to addUserFabric: an upload, an entry with the id of a predefined
\* fabric, and an entry that says it is not user-uploaded.
UserFabricInputs ==
  { [TextureFabric("custom-1", "blob:1", "#ffffff") EXCEPT !.isUserUploaded = Some(TRUE)],
    ColorFabric("denim", "#000000"),
    [ColorFabric("custom-2", "#123456") EXCEPT !.isUserUploaded = Some(FALSE)] }

\* The ids handed to setSelectedFabric and removeUserFabric.
FabricIds == {"navy-blue", "denim", "tweed", "custom-1", "custom-2"}

\* JavaScript truthiness of an optional boolean.
Truthy(o) == o # None /\ Get(o)

addUserFabric(fs, fabric) ==
  Append(fs, [fabric EXCEPT !.isUserUploaded = Some(TRUE)])

removeFabric(fs, id) ==
  SelectSeq(fs, LAMBDA f : f.id # id)

removeUserFabric(fs, id) ==
  SelectSeq(fs, LAMBDA f : f.id # id \/ ~Truthy(f.isUserUploaded))

\* fabrics.find((f) => f.id === selectedFabricId)
findFabric(fs, id) ==
  LET hits == {i \in DOMAIN fs : fs[i].id = id}
  IN  IF hits = {} THEN None
      ELSE Some(fs[CHOOSE i \in hits : \A k \in hits : i <= k])

(***************************************************************************)
(* useTextureSwap.  The jacket materials of a model are one entry: their   *)
(* map (None or Some(url)) and their color.                                *)
(***************************************************************************)
White == "#ffffff"

\* The materials of a model as loaded.
Authored == [map |-> None, color |-> "authored"]

\* Solid color - remove any texture and set color.
ApplyColor(mats, k, color) ==
  [mats EXCEPT ![k] = [map |-> None, color |-> color]]

\* The then-callback of loadTexture.
ApplyTexture(mats, k, url) ==
  [mats EXCEPT ![k] = [map |-> Some(url), color |-> White]]

\* The catch-callback of loadTexture: the color only.
ApplyFallback(mats, k, color) ==
  IF color = None THEN mats ELSE [mats EXCEPT ![k].color = Get(color)]

(***************************************************************************)
(* State.                                                                  *)
(***************************************************************************)
VARIABLES
  model,             \* BodyModelOverlay's model prop: NoModel or a rig instance
  rigs,              \* the template of every rig loaded so far, by instance
  rotation,          \* bone.rotation of every bone of every loaded rig
  transform,         \* position, scale and rotation.y of every loaded rig
  landmarks,         \* useBodyTracking's state: None or Some(Results)
  debugValues,       \* the state of the debug store
  armBonesRef,       \* None or Some([upperarm_l, upperarm_r, lowerarm_l, lowerarm_r])
  restRotationsRef,  \* Map<bone name, Euler>
  smoothRotations,   \* Map<Joint Key, Euler>
  initializedRef,
  nUpdates,          \* history: number of updates so far
  rigUpdates,        \* history: number of updates since the bind effect ran
  written,           \* history: the bones whose rotation the last event wrote
  applied,           \* history: tracked updates made from the current Results
  filt,              \* the state of the filter specification
  videoTime,         \* useBodyTracking: the number of the video's current frame
  lastTime,          \* Camera: the video frame of its last onFrame call
  frameCountRef,     \* useBodyTracking: frameCountRef.current
  onFramePending,    \* Camera: the promise of the last onFrame call is not settled
  estimating,        \* Pose: the frames sent to it whose results are not out yet
  results,           \* useBodyTracking: the frame of its landmarks state, 0 for null
  skeleton,          \* findBoneByPattern: the names of skeleton.bones, in order
  boneKey,           \* findBoneByPattern: None or Some(the key that was resolved)
  found,             \* findBoneByPattern: None (null) or Some(index of the bone returned)
  matched,           \* the bind effect's matching on the same bones: indices, in order
  jacketModel,       \* useJacketRigging's jacketModel argument: NoModel or a rig instance
  jacketRigs,        \* the template of every jacket loaded so far, by instance
  quaternion,        \* bone.quaternion of every bone of every loaded jacket
  jacketTransform,   \* position, scale and rotation of every loaded jacket
  jacketLandmarks,   \* useJacketRigging's landmarks argument: None or Some(Results)
  aspect,            \* useJacketRigging's aspect argument
  skeletonRef,       \* None or Some(skeleton)
  restPosesRef,      \* Map<bone name, Quaternion>
  prevBones,         \* Map<bone name, BoneState.rotation>
  bonesInitialized,
  initialized,
  prevTransform,     \* prevPos, prevScale, prevRotZ and prevRotY
  jacketFrameCount,  \* useJacketRigging's frameCountRef.current
  jWritten,          \* history: the bones whose quaternion the last commit wrote
  jTargets,          \* history: the target quaternion of each bone name it drove
  jLogged,           \* history: the console calls of the last commit
  dirFrom,           \* quaternionFromDirections / getRotationBetweenVectors: from
  dirTo,             \* and to
  dirQuat,           \* None or Some(the quaternion each of them returned)
  cameraRef,         \* useBodyTracking: None or Some(the started Camera)
  poseRef,           \* useBodyTracking: None or Some(the open Pose)
  selectedBodyType,  \* app store: bodyModel
  bodyModel,         \* TryOnCanvas: None or Some(the Group of a load, by load number)
  bodyLoads,         \* the loads TryOnCanvas started, in order
  cleanupBodyModel,  \* the bodyModel the pending cleanup of the load effect closes over
  disposed,          \* the body Groups whose geometry and materials were disposed
  canvasMounted,     \* TryOnCanvas is mounted
  loadError,         \* TryOnCanvas: None or Some(the load that failed)
  loadedJacket,      \* JacketModel: its model state, None or Some(path)
  jacketLoad,        \* JacketModel: "pending", "loaded" or "failed"
  jacketMounted,     \* JacketModel is mounted
  jacketDisposed,    \* the Group JacketModel loaded was disposed
  fabrics,           \* app store: fabrics
  selectedFabricId,  \* app store: selectedFabricId
  storeCall,         \* history: the last call of the store, and Len(fabrics) before it
  swapModel,         \* useTextureSwap's model argument: None or Some(model number)
  materials,         \* map and color of the jacket materials of every model, by number
  textureLoads,      \* the TextureLoader requests useTextureSwap started, in order
  textureCache,      \* the urls in textureCache
  currentTextureRef  \* useTextureSwap: currentTextureRef.current

vars == << model, rigs, rotation, transform, landmarks, debugValues, armBonesRef,
           restRotationsRef, smoothRotations, initializedRef,
           nUpdates, rigUpdates, written, applied, filt,
           videoTime, lastTime, frameCountRef, onFramePending, estimating, results,
           skeleton, boneKey, found, matched,
           jacketModel, jacketRigs, quaternion, jacketTransform, jacketLandmarks, aspect,
           skeletonRef, restPosesRef, prevBones, bonesInitialized, initialized,
           prevTransform, jacketFrameCount, jWritten, jTargets, jLogged,
           dirFrom, dirTo, dirQuat, cameraRef, poseRef,
           selectedBodyType, bodyModel, bodyLoads, cleanupBodyModel, disposed,
           canvasMounted, loadError, loadedJacket, jacketLoad, jacketMounted,
           jacketDisposed, fabrics, selectedFabricId, storeCall,
           swapModel, materials, textureLoads, textureCache, currentTextureRef >>

hookVars == << model, rigs, rotation, transform, landmarks, debugValues, armBonesRef,
               restRotationsRef, smoothRotations, initializedRef,
               nUpdates, rigUpdates, written, applied >>

trackVars == << videoTime, lastTime, frameCountRef, onFramePending, estimating, results >>

resolverVars == << skeleton, boneKey, found, matched >>

jacketVars == << jacketModel, jacketRigs, quaternion, jacketTransform, jacketLandmarks,
                 aspect, skeletonRef, restPosesRef, prevBones, bonesInitialized,
                 initialized, prevTransform, jacketFrameCount, jWritten, jTargets, jLogged >>

FilterIdle == [target |-> RZero, start |-> RZero, smooth |-> RZero, alpha |-> ROne, steps |-> 0]

\* The state after the first render: no model, no landmarks, default debug values.
HookInit ==
  /\ model = NoModel
  /\ rigs = << >>
  /\ rotation = << >>
  /\ transform = << >>
  /\ landmarks = None
  /\ debugValues = defaultValues
  /\ armBonesRef = None
  /\ restRotationsRef = EmptyMap
  /\ smoothRotations = EmptyMap
  /\ initializedRef = FALSE
  /\ nUpdates = 0
  /\ rigUpdates = 0
  /\ written = {}
  /\ applied = 0

\* useBodyTracking after its effect ran: the camera started, no frame seen yet.
TrackInit ==
  /\ videoTime = 0
  /\ lastTime = 0
  /\ frameCountRef = 0
  /\ onFramePending = FALSE
  /\ estimating = {}
  /\ results = 0

\* No skeleton has been handed to the resolver.
ResolverIdle ==
  /\ skeleton = << >>
  /\ boneKey = None
  /\ found = None
  /\ matched = << >>

\* useJacketRigging after the first render: no jacket, no landmarks.
JacketInit ==
  /\ jacketModel = NoModel
  /\ jacketRigs = << >>
  /\ quaternion = << >>
  /\ jacketTransform = << >>
  /\ jacketLandmarks = None
  /\ aspect = ASPECT
  /\ skeletonRef = None
  /\ restPosesRef = EmptyMap
  /\ prevBones = EmptyMap
  /\ bonesInitialized = FALSE
  /\ initialized = FALSE
  /\ prevTransform = [x |-> RZero, y |-> RZero, scale |-> ROne, rotZ |-> RZero, rotY |-> RZero]
  /\ jacketFrameCount = 0
  /\ jWritten = {}
  /\ jTargets = EmptyMap
  /\ jLogged = {}

dirVars == << dirFrom, dirTo, dirQuat >>

\* The variables of the specifications of single functions and components.
oldVars == << hookVars, filt, trackVars, resolverVars, jacketVars >>

trackRefVars == << cameraRef, poseRef >>

loaderVars == << selectedBodyType, bodyModel, bodyLoads, cleanupBodyModel, disposed,
                 canvasMounted, loadError, loadedJacket, jacketLoad, jacketMounted,
                 jacketDisposed >>

storeVars == << fabrics, selectedFabricId, storeCall >>

textureVars == << swapModel, materials, textureLoads, textureCache, currentTextureRef >>

appVars == << loaderVars, storeVars, textureVars >>

laterVars == << dirVars, trackRefVars, appVars >>

\* No pair of directions has been handed to the two functions.
DirectionsIdle ==
  /\ dirFrom = Vec(RZero, ROne)
  /\ dirTo = Vec(RZero, ROne)
  /\ dirQuat = None

\* useBodyTracking after its effect ran: the estimator is open, the camera started.
TrackRefsInit ==
  /\ cameraRef = Some("started")
  /\ poseRef = Some("open")

\* TryOnCanvas and JacketModel after their first render: each started its load.
LoaderInit ==
  /\ selectedBodyType = "male"
  /\ bodyModel = None
  /\ bodyLoads = StartLoad(<< >>, MODEL_PATHS["male"], 1)
  /\ cleanupBodyModel = None
  /\ disposed = {}
  /\ canvasMounted = TRUE
  /\ loadError = None
  /\ loadedJacket = None
  /\ jacketLoad = "pending"
  /\ jacketMounted = TRUE
  /\ jacketDisposed = FALSE

\* The app store as created, and useTextureSwap before a model is given to it.
StoreInit ==
  /\ fabrics = PREDEFINED_FABRICS
  /\ selectedFabricId = "navy-blue"
  /\ storeCall = [op |-> "create", id |-> "", before |-> 0]
  /\ swapModel = None
  /\ materials = << >>
  /\ textureLoads = << >>
  /\ textureCache = {}
  /\ currentTextureRef = None

LaterIdle == DirectionsIdle /\ TrackRefsInit /\ LoaderInit /\ StoreInit

Init ==
  HookInit /\ filt = FilterIdle /\ TrackInit /\ ResolverIdle /\ JacketInit /\ LaterIdle

(***************************************************************************)
(* One React commit: the effects whose dependencies changed run in the     *)
(* order the hook declares them.                                           *)
(***************************************************************************)
\* A bind effect without a dependency array: it runs in every commit.
BindEveryCommit(changed) == TRUE

\* }, [model]);
BindEffectDue(changed) == changed = "model"

\* }, [model, landmarks, mirrored, debugValues]);
PoseEffectDue(changed) == changed \in {"model", "landmarks", "debugValues"}

RunEffects(changed, m, lm, dv, rg, r, w) ==
  LET b == IF BindEffectDue(changed) THEN BindEffect(m, rg, r, w) ELSE [refs |-> r, w |-> w]
  IN  [ refs |-> b.refs,
        w |-> IF PoseEffectDue(changed) THEN PoseEffect(m, lm, dv, rg, b.refs, b.w) ELSE b.w ]

\* The commit of an event that left the hook with (m, lm, dv, rg, rot, tr, app).
Commit(changed, m, lm, dv, rg, rot, tr, app) ==
  LET r == [ armBonesRef |-> armBonesRef,
             restRotationsRef |-> restRotationsRef,
             initializedRef |-> initializedRef ]
      w == [ smoothRotations |-> smoothRotations, rotation |-> rot, transform |-> tr,
             written |-> {}, applied |-> app,
             updates |-> nUpdates, rigUpdates |-> rigUpdates ]
  IN  \E out \in {RunEffects(changed, m, lm, dv, rg, r, w)} :
      /\ model' = m
      /\ landmarks' = lm
      /\ debugValues' = dv
      /\ rigs' = rg
      /\ armBonesRef' = out.refs.armBonesRef
      /\ restRotationsRef' = out.refs.restRotationsRef
      /\ initializedRef' = out.refs.initializedRef
      /\ smoothRotations' = out.w.smoothRotations
      /\ rotation' = out.w.rotation
      /\ transform' = out.w.transform
      /\ written' = out.w.written
      /\ applied' = out.w.applied
      /\ nUpdates' = out.w.updates
      /\ rigUpdates' = out.w.rigUpdates

(***************************************************************************)
(* Events.                                                                 *)
(***************************************************************************)
\* handleModelLoaded: setBodyModelState(scene) with the Group of a finished load.
ModelLoaded(t) ==
  /\ nUpdates < MaxUpdates
  /\ Len(rigs) < MaxLoads
  /\ LET rg == Append(rigs, t)
         i == Len(rg)
         fresh == Range(TraverseBones(rg, i))
         rot == [id \in DOMAIN rotation \cup fresh |->
                   IF id \in fresh THEN BoneOf(rg, id).rotation ELSE rotation[id]]
         tr == Append(transform, LoadedTransform)
     IN  Commit("model", i, landmarks, debugValues, rg, rot, tr, applied)
  /\ UNCHANGED <<filt, trackVars, resolverVars, jacketVars, laterVars>>

\* poseRef.current.onResults((results) => setLandmarks(results))
OnResults(f) ==
  /\ nUpdates < MaxUpdates
  /\ Commit("landmarks", model, Some(f), debugValues, rigs, rotation, transform, 0)
  /\ UNCHANGED <<filt, trackVars, resolverVars, jacketVars, laterVars>>

\* A slider or toggle of the debug panel: setValue(key, value).
SetDebugValue(key, value) ==
  /\ nUpdates < MaxUpdates
  /\ Commit("debugValues", model, landmarks, setValue(debugValues, key, value),
            rigs, rotation, transform, applied)
  /\ UNCHANGED <<filt, trackVars, resolverVars, jacketVars, laterVars>>

\* The reset button of the debug panel.
ResetDebugValues ==
  /\ nUpdates < MaxUpdates
  /\ Commit("debugValues", model, landmarks, resetAll(debugValues),
            rigs, rotation, transform, applied)
  /\ UNCHANGED <<filt, trackVars, resolverVars, jacketVars, laterVars>>

Next ==
  \/ \E t \in TemplateNames : ModelLoaded(t)
  \/ \E f \in Frames : OnResults(f)
  \/ \E kv \in DebugWrites : SetDebugValue(kv[1], kv[2])
  \/ ResetDebugValues

Spec == Init /\ [][Next]_vars

(***************************************************************************)
(* The filter on its own: one smoothed component, an entry left by earlier *)
(* updates, and the same raw target fed to it update after update.         *)
(***************************************************************************)
FilterTargets == {<<13, 1>>, <<-48, 1>>, <<0, 1>>}
FilterStarts == {<<0, 1>>, <<13, 1>>, <<-48, 1>>, <<10, 1>>}
\* The default smoothing factor, and two positions of its slider (0.1 to 1.0).
FilterAlphas == {<<7, 20>>, <<1, 2>>, <<1, 1>>}

InitFilter ==
  /\ HookInit
  /\ TrackInit
  /\ ResolverIdle
  /\ JacketInit
  /\ LaterIdle
  /\ \E t \in FilterTargets, s0 \in FilterStarts, a \in FilterAlphas :
       filt = [target |-> t, start |-> s0, smooth |-> s0, alpha |-> a, steps |-> 0]

\* One update with the same raw target: smooth += (target - smooth) * SMOOTH.
FilterStep ==
  /\ filt.steps < MaxFilterSteps
  /\ \E f \in {filt} :
       filt' = [f EXCEPT !.smooth = SmoothStep(f.smooth, f.target, f.alpha),
                        !.steps = @ + 1]
  /\ UNCHANGED <<hookVars, trackVars, resolverVars, jacketVars, laterVars>>

NextFilter == FilterStep

\* The updates keep coming while frames are delivered.
SpecFilter == InitFilter /\ [][NextFilter]_vars /\ WF_vars(FilterStep)

(***************************************************************************)
(* useBodyTracking: the camera loop, the throttle and the pose estimator.  *)
(* Camera calls onFrame when the video shows a frame it has not seen, and  *)
(* not before the promise of its previous onFrame call is settled; Pose    *)
(* hands the results of a frame to the onResults listener before the       *)
(* promise of that frame's send resolves.                                  *)
(***************************************************************************)
\* An onFrame that does not wait for the estimator.
SettledAtOnce(sent) == FALSE

\* async onFrame: the promise stays pending while it awaits poseRef.current.send.
OnFramePromisePending(sent) == sent

\* A throttle that skips no frame.
SkipNone(count) == FALSE

\* if (frameCountRef.current % 2 !== 0) return;
SkipFrame(count) == count % 2 # 0

\* The video shows its next frame.
VideoFrame ==
  /\ videoTime < MaxVideoFrames
  /\ videoTime' = videoTime + 1
  /\ UNCHANGED <<lastTime, frameCountRef, onFramePending, estimating, results>>
  /\ UNCHANGED <<hookVars, filt, resolverVars, jacketVars, laterVars>>

\* onFrame: count the frame, skip the odd ones, send the others to the estimator.
OnFrame ==
  /\ cameraRef # None
  /\ ~onFramePending
  /\ videoTime # lastTime
  /\ lastTime' = videoTime
  /\ frameCountRef' = frameCountRef + 1
  /\ IF SkipFrame(frameCountRef + 1) \/ poseRef = None
     THEN /\ onFramePending' = OnFramePromisePending(FALSE)
          /\ UNCHANGED estimating
     ELSE /\ onFramePending' = OnFramePromisePending(TRUE)
          /\ estimating' = estimating \cup {videoTime}
  /\ UNCHANGED <<videoTime, results>>
  /\ UNCHANGED <<hookVars, filt, resolverVars, jacketVars, laterVars>>

\* The estimator finishes frame n: onResults -> setLandmarks(results), and the
\* send of that frame resolves.
PoseResults(n) ==
  /\ poseRef # None
  /\ n \in estimating
  /\ results' = n
  /\ estimating' = estimating \ {n}
  /\ onFramePending' = FALSE
  /\ UNCHANGED <<videoTime, lastTime, frameCountRef>>
  /\ UNCHANGED <<hookVars, filt, resolverVars, jacketVars, laterVars>>

\* The cleanup of the effect, at unmount: the camera is stopped, the estimator
\* closed, the count restarted.
TrackingCleanup ==
  /\ cameraRef # None
  /\ cameraRef' = None
  /\ poseRef' = None
  /\ frameCountRef' = 0
  /\ UNCHANGED <<videoTime, lastTime, onFramePending, estimating, results>>
  /\ UNCHANGED <<hookVars, filt, resolverVars, jacketVars, dirVars, appVars>>

NextTracking ==
  \/ VideoFrame
  \/ OnFrame
  \/ \E n \in 1..MaxVideoFrames : PoseResults(n)
  \/ TrackingCleanup

SpecTracking == Init /\ [][NextTracking]_vars

(***************************************************************************)
(* The hook on rigs of every asset, in tracking mode with the default      *)
(* debug values.                                                           *)
(***************************************************************************)
TrackedFrames == {FrameArmsDown, FrameMixed, FrameTPose}

NextRigs ==
  \/ \E t \in AllTemplateNames : ModelLoaded(t)
  \/ \E f \in TrackedFrames : OnResults(f)

SpecRigs == Init /\ [][NextRigs]_vars

(***************************************************************************)
(* The bone resolver of poseRetargeting: BONE_NAME_PATTERNS and            *)
(* findBoneByPattern, on the bones of one skeleton (their names, in the    *)
(* order of skeleton.bones).  The matching of the bind effect is applied   *)
(* to the same bones.                                                      *)
(***************************************************************************)
F_leftarm == <<"l","e","f","t","a","r","m">>
F_l_upperarm == <<"l","_","u","p","p","e","r","a","r","m">>
F_arm_l == <<"a","r","m","_","l">>
F_upper_arm_dot_l == <<"u","p","p","e","r","_","a","r","m",".","l">>
F_upperarm_dot_l == <<"u","p","p","e","r","a","r","m",".","l">>
F_leftforearm == <<"l","e","f","t","f","o","r","e","a","r","m">>
F_l_lowerarm == <<"l","_","l","o","w","e","r","a","r","m">>
F_forearm_l == <<"f","o","r","e","a","r","m","_","l">>
F_lower_arm_dot_l == <<"l","o","w","e","r","_","a","r","m",".","l">>
F_lowerarm_dot_l == <<"l","o","w","e","r","a","r","m",".","l">>
S_in_ == <<"_","i","n","_">>
S_out_ == <<"_","o","u","t","_">>

\* The candidate fragments of the arm keys, in priority order.
BONE_NAME_PATTERNS ==
  [ leftUpperArm |-> << N_upperarm_l, F_leftarm, F_l_upperarm, F_arm_l,
                        F_upper_arm_dot_l, F_upperarm_dot_l >>,
    leftLowerArm |-> << N_lowerarm_l, F_leftforearm, F_l_lowerarm, F_forearm_l,
                        F_lower_arm_dot_l, F_lowerarm_dot_l >> ]

BoneKeys == DOMAIN BONE_NAME_PATTERNS

\* Bone names a skeleton may contain.
N_LeftArm == <<"L","e","f","t","A","r","m">>
N_rig_upperarm_l == <<"r","i","g","_","u","p","p","e","r","a","r","m","_","l">>
N_upperarm_l_in == <<"u","p","p","e","r","a","r","m","_","l","_","i","n">>
N_upperarm_l_bicep == <<"u","p","p","e","r","a","r","m","_","l","_","b","i","c","e","p">>

BoneNames ==
  { N_upperarm_l, N_upperarm_l_twist, N_UpperArm_L, N_LeftArm, N_rig_upperarm_l,
    N_upperarm_l_in, N_upperarm_l_bicep, N_lowerarm_l, N_spine_01 }

Skeletons == UNION {[1..n -> BoneNames] : n \in 0..MaxBones}

\* b.name.toLowerCase() === pattern.toLowerCase()
ExactMatch(name, pattern) == toLowerCase(name) = toLowerCase(pattern)

\* The predicate of the second pass.
IncludesMatch(name, pattern) ==
  /\ includes(toLowerCase(name), toLowerCase(pattern))
  /\ ~includes(toLowerCase(name), S_twist)
  /\ ~includes(toLowerCase(name), S_corrective)
  /\ ~includes(toLowerCase(name), S_in_)
  /\ ~includes(toLowerCase(name), S_out_)
  /\ ~includes(toLowerCase(name), S_fwd)
  /\ ~includes(toLowerCase(name), S_bck)

\* skeleton.bones.find(...) of the first pass: the first bone, or None.
FindExact(bones, pattern) ==
  IF \E i \in 1..Len(bones) : ExactMatch(bones[i], pattern)
  THEN Some(CHOOSE i \in 1..Len(bones) :
              /\ ExactMatch(bones[i], pattern)
              /\ \A j \in 1..(i - 1) : ~ExactMatch(bones[j], pattern))
  ELSE None

\* skeleton.bones.find(...) of the second pass.
FindIncludes(bones, pattern) ==
  IF \E i \in 1..Len(bones) : IncludesMatch(bones[i], pattern)
  THEN Some(CHOOSE i \in 1..Len(bones) :
              /\ IncludesMatch(bones[i], pattern)
              /\ \A j \in 1..(i - 1) : ~IncludesMatch(bones[j], pattern))
  ELSE None

\* for (const pattern of patterns) { ... if (bone) return bone; }, first pass
RECURSIVE ExactPass(_, _, _)
ExactPass(bones, patterns, p) ==
  IF p > Len(patterns) THEN None
  ELSE IF FindExact(bones, patterns[p]) # None THEN FindExact(bones, patterns[p])
  ELSE ExactPass(bones, patterns, p + 1)

\* The same loop, second pass.
RECURSIVE IncludesPass(_, _, _)
IncludesPass(bones, patterns, p) ==
  IF p > Len(patterns) THEN None
  ELSE IF FindIncludes(bones, patterns[p]) # None THEN FindIncludes(bones, patterns[p])
  ELSE IncludesPass(bones, patterns, p + 1)

\* A resolver that runs the includes pass before the exact pass.
findBoneIncludesFirst(bones, key) ==
  IF IncludesPass(bones, BONE_NAME_PATTERNS[key], 1) # None
  THEN IncludesPass(bones, BONE_NAME_PATTERNS[key], 1)
  ELSE ExactPass(bones, BONE_NAME_PATTERNS[key], 1)

findBoneByPattern(bones, key) ==
  IF ExactPass(bones, BONE_NAME_PATTERNS[key], 1) # None
  THEN ExactPass(bones, BONE_NAME_PATTERNS[key], 1)
  ELSE IncludesPass(bones, BONE_NAME_PATTERNS[key], 1)

\* The test the bind effect makes for the arm the key names.
MatchesKey(name, key) ==
  IF key = "leftUpperArm"
  THEN MatchesUpperArm(toLowerCase(name), N_upperarm_l)
  ELSE MatchesLowerArm(toLowerCase(name), N_lowerarm_l)

\* skeleton.bones.forEach with that test: the bones pushed, in order.
MatchAll(bones, key) ==
  SelectSeq([i \in 1..Len(bones) |-> i], LAMBDA i : MatchesKey(bones[i], key))

InitResolver ==
  /\ HookInit
  /\ filt = FilterIdle
  /\ TrackInit
  /\ skeleton \in Skeletons
  /\ boneKey = None
  /\ found = None
  /\ matched = << >>
  /\ JacketInit
  /\ LaterIdle

\* One call of each resolver on the skeleton.
Resolve(key) ==
  /\ boneKey = None
  /\ boneKey' = Some(key)
  /\ found' = findBoneByPattern(skeleton, key)
  /\ matched' = MatchAll(skeleton, key)
  /\ UNCHANGED skeleton
  /\ UNCHANGED <<hookVars, filt, trackVars, jacketVars, laterVars>>

NextResolver == \E key \in BoneKeys : Resolve(key)

SpecResolver == InitResolver /\ [][NextResolver]_vars

(***************************************************************************)
(* The jacket canvas: JacketOverlay hands the loaded Group, the landmarks  *)
(* and the viewport aspect to useJacketRigging.  In one commit the         *)
(* skeleton effect runs when jacketModel changed, then the frame effect.   *)
(***************************************************************************)
JacketCommit(changed, m, lm, asp, rg, quat, tr) ==
  LET jr == [ skeletonRef |-> skeletonRef, restPosesRef |-> restPosesRef, logged |-> {} ]
      j == [ prevBones |-> prevBones, bonesInitialized |-> bonesInitialized,
             initialized |-> initialized, prev |-> prevTransform,
             transform |-> tr, quaternion |-> quat,
             written |-> {}, targets |-> EmptyMap, logged |-> {},
             frameCount |-> jacketFrameCount ]
  IN  \E refs \in {IF changed = "jacketModel" THEN SkeletonEffect(m, rg, quat, jr) ELSE jr} :
      \E out \in {FrameEffect(m, lm, asp, rg, refs, j)} :
        /\ jacketModel' = m
        /\ jacketLandmarks' = lm
        /\ aspect' = asp
        /\ jacketRigs' = rg
        /\ skeletonRef' = refs.skeletonRef
        /\ restPosesRef' = refs.restPosesRef
        /\ prevBones' = out.prevBones
        /\ bonesInitialized' = out.bonesInitialized
        /\ initialized' = out.initialized
        /\ prevTransform' = out.prev
        /\ jacketTransform' = out.transform
        /\ quaternion' = out.quaternion
        /\ jacketFrameCount' = out.frameCount
        /\ jWritten' = out.written
        /\ jTargets' = out.targets
        /\ jLogged' = refs.logged \cup out.logged

\* setJacketModel(scene) with the Group of a finished load.
JacketLoaded(t) ==
  /\ jacketFrameCount < MaxJacketFrames
  /\ Len(jacketRigs) < MaxLoads
  /\ LET rg == Append(jacketRigs, t)
         i == Len(rg)
         fresh == {id \in JacketBoneIds(rg) : id[1] = i}
         quat == [id \in DOMAIN quaternion \cup fresh |->
                    IF id \in fresh THEN SkeletonBones(rg, id)[id[3]].quaternion
                    ELSE quaternion[id]]
     IN  JacketCommit("jacketModel", i, jacketLandmarks, aspect, rg, quat,
                      Append(jacketTransform, LoadedJacketTransform))
  /\ UNCHANGED <<hookVars, filt, trackVars, resolverVars, laterVars>>

\* The jacketModel prop goes back to null.
JacketRemoved ==
  /\ jacketFrameCount < MaxJacketFrames
  /\ jacketModel # NoModel
  /\ JacketCommit("jacketModel", NoModel, jacketLandmarks, aspect, jacketRigs,
                  quaternion, jacketTransform)
  /\ UNCHANGED <<hookVars, filt, trackVars, resolverVars, laterVars>>

\* setLandmarks(results) of useBodyTracking.
JacketResults(f) ==
  /\ jacketFrameCount < MaxJacketFrames
  /\ JacketCommit("landmarks", jacketModel, Some(f), aspect, jacketRigs,
                  quaternion, jacketTransform)
  /\ UNCHANGED <<hookVars, filt, trackVars, resolverVars, laterVars>>

\* The canvas is resized: viewport.aspect changes.
Resize(a) ==
  /\ jacketFrameCount < MaxJacketFrames
  /\ a # aspect
  /\ JacketCommit("aspect", jacketModel, jacketLandmarks, a, jacketRigs,
                  quaternion, jacketTransform)
  /\ UNCHANGED <<hookVars, filt, trackVars, resolverVars, laterVars>>

NextJacket ==
  \/ \E t \in JacketTemplateNames : JacketLoaded(t)
  \/ JacketRemoved
  \/ \E f \in JacketFrames : JacketResults(f)
  \/ \E a \in Aspects : Resize(a)

SpecJacket == Init /\ [][NextJacket]_vars

(***************************************************************************)
(* The two direction-to-rotation functions on their own.                   *)
(***************************************************************************)
InitDirections ==
  /\ HookInit /\ filt = FilterIdle /\ TrackInit /\ ResolverIdle /\ JacketInit
  /\ TrackRefsInit /\ LoaderInit /\ StoreInit
  /\ \E pair \in DirectionPairs : dirFrom = pair[1] /\ dirTo = pair[2]
  /\ dirQuat = None

\* One call of each function on the pair.
ComputeRotation ==
  /\ dirQuat = None
  /\ dirQuat' = Some([ fromDirections |-> quaternionFromDirectionsOf(dirFrom, dirTo),
                      betweenVectors |-> getRotationBetweenVectors(dirFrom, dirTo) ])
  /\ UNCHANGED <<dirFrom, dirTo>>
  /\ UNCHANGED <<oldVars, trackRefVars, appVars>>

NextDirections == ComputeRotation

SpecDirections == InitDirections /\ [][NextDirections]_vars

(***************************************************************************)
(* TryOnCanvas and JacketModel: selections, load completions, unmounts.    *)
(***************************************************************************)
\* setBodyModel(t) of the app store and the commit that follows: the cleanup of the
\* previous run of the load effect, then the effect, whose cleanup closes over the
\* bodyModel of this render.
SetBodyModel(t) ==
  /\ canvasMounted
  /\ t # selectedBodyType
  /\ Len(bodyLoads) < MaxBodyLoads
  /\ selectedBodyType' = t
  /\ disposed' = DisposeModel(cleanupBodyModel, disposed)
  /\ cleanupBodyModel' = bodyModel
  /\ bodyLoads' = StartLoad(bodyLoads, MODEL_PATHS[t], LastRun(bodyLoads) + 1)
  /\ loadError' = None
  /\ UNCHANGED <<bodyModel, canvasMounted, loadedJacket, jacketLoad, jacketMounted,
                 jacketDisposed>>
  /\ UNCHANGED <<oldVars, dirVars, trackRefVars, storeVars, textureVars>>

\* handleModelLoaded of load n: setBodyModelState(scene).
BodyModelLoaded(n) ==
  /\ n \in DOMAIN bodyLoads
  /\ bodyLoads[n].status = "pending"
  /\ bodyLoads' = [bodyLoads EXCEPT ![n].status = "loaded"]
  /\ bodyModel' = IF canvasMounted THEN Some(n) ELSE bodyModel
  /\ UNCHANGED <<selectedBodyType, cleanupBodyModel, disposed, canvasMounted, loadError,
                 loadedJacket, jacketLoad, jacketMounted, jacketDisposed>>
  /\ UNCHANGED <<oldVars, dirVars, trackRefVars, storeVars, textureVars>>

\* handleError of load n: the fallback model, unless it is the path that failed.
BodyModelFailed(n) ==
  /\ n \in DOMAIN bodyLoads
  /\ bodyLoads[n].status = "pending"
  /\ \A failed \in {[bodyLoads EXCEPT ![n].status = "failed"]} :
       IF bodyLoads[n].path # FALLBACK_MODEL
       THEN /\ bodyLoads' = StartLoad(failed, FALLBACK_MODEL, bodyLoads[n].run)
            /\ UNCHANGED loadError
       ELSE /\ bodyLoads' = failed
            /\ loadError' = IF canvasMounted THEN Some(n) ELSE loadError
  /\ UNCHANGED <<selectedBodyType, bodyModel, cleanupBodyModel, disposed, canvasMounted,
                 loadedJacket, jacketLoad, jacketMounted, jacketDisposed>>
  /\ UNCHANGED <<oldVars, dirVars, trackRefVars, storeVars, textureVars>>

\* TryOnCanvas unmounts: the cleanup of the last run of the load effect.
CanvasUnmount ==
  /\ canvasMounted
  /\ canvasMounted' = FALSE
  /\ disposed' = DisposeModel(cleanupBodyModel, disposed)
  /\ UNCHANGED <<selectedBodyType, bodyModel, bodyLoads, cleanupBodyModel, loadError,
                 loadedJacket, jacketLoad, jacketMounted, jacketDisposed>>
  /\ UNCHANGED <<oldVars, dirVars, trackRefVars, storeVars, textureVars>>

\* JacketModel's onLoad: setModel(scene).
JacketModelLoaded ==
  /\ jacketLoad = "pending"
  /\ jacketLoad' = "loaded"
  /\ loadedJacket' = IF jacketMounted THEN Some(JACKET_PATH) ELSE loadedJacket
  /\ UNCHANGED <<selectedBodyType, bodyModel, bodyLoads, cleanupBodyModel, disposed,
                 canvasMounted, loadError, jacketMounted, jacketDisposed>>
  /\ UNCHANGED <<oldVars, dirVars, trackRefVars, storeVars, textureVars>>

\* JacketModel's onError: console.error.
JacketModelFailed ==
  /\ jacketLoad = "pending"
  /\ jacketLoad' = "failed"
  /\ UNCHANGED <<selectedBodyType, bodyModel, bodyLoads, cleanupBodyModel, disposed,
                 canvasMounted, loadError, loadedJacket, jacketMounted, jacketDisposed>>
  /\ UNCHANGED <<oldVars, dirVars, trackRefVars, storeVars, textureVars>>

\* JacketModel unmounts: the cleanup of its load effect.  The effect has no
\* dependencies, so the model its cleanup closes over is the one of the first
\* render, null.
JacketModelUnmount ==
  /\ jacketMounted
  /\ jacketMounted' = FALSE
  /\ jacketDisposed' = (jacketDisposed \/ DisposeModel(None, {}) # {})
  /\ UNCHANGED <<selectedBodyType, bodyModel, bodyLoads, cleanupBodyModel, disposed,
                 canvasMounted, loadError, loadedJacket, jacketLoad>>
  /\ UNCHANGED <<oldVars, dirVars, trackRefVars, storeVars, textureVars>>

NextLoader ==
  \/ \E t \in BodyModelTypes : SetBodyModel(t)
  \/ \E n \in 1..MaxBodyLoads : BodyModelLoaded(n)
  \/ \E n \in 1..MaxBodyLoads : BodyModelFailed(n)
  \/ CanvasUnmount
  \/ JacketModelLoaded
  \/ JacketModelFailed
  \/ JacketModelUnmount

SpecLoader == Init /\ [][NextLoader]_vars

(***************************************************************************)
(* The app store's fabric calls and useTextureSwap's effect, which runs in *)
(* the commit after a call that changed model, selectedFabricId or fabrics.*)
(***************************************************************************)
\* The effect of useTextureSwap with model m, selectedFabricId id and fabrics fs,
\* on the materials mats.
TextureSwapEffect(m, id, fs, mats) ==
  LET fabric == findFabric(fs, id)
  IN  IF m = None \/ fabric = None
      THEN /\ materials' = mats
           /\ UNCHANGED <<textureLoads, textureCache, currentTextureRef>>
      ELSE LET f == Get(fabric)
               k == Get(m)
           IN  IF f.type = "color" /\ f.color # None
               THEN /\ materials' = ApplyColor(mats, k, Get(f.color))
                    /\ currentTextureRef' = None
                    /\ UNCHANGED <<textureLoads, textureCache>>
               ELSE IF f.type = "texture" /\ f.textureUrl # None
               THEN IF currentTextureRef = f.textureUrl
                    THEN /\ materials' = mats
                         /\ UNCHANGED <<textureLoads, textureCache, currentTextureRef>>
                    ELSE IF Get(f.textureUrl) \in textureCache
                    THEN /\ materials' = ApplyTexture(mats, k, Get(f.textureUrl))
                         /\ currentTextureRef' = f.textureUrl
                         /\ UNCHANGED <<textureLoads, textureCache>>
                    ELSE /\ textureLoads' =
                              Append(textureLoads,
                                     [url |-> Get(f.textureUrl), model |-> k,
                                      color |-> f.color, status |-> "pending"])
                         /\ materials' = mats
                         /\ UNCHANGED <<textureCache, currentTextureRef>>
               ELSE /\ materials' = mats
                    /\ UNCHANGED <<textureLoads, textureCache, currentTextureRef>>

SetSelectedFabric(id) ==
  /\ Len(textureLoads) < MaxTextureLoads
  /\ selectedFabricId' = id
  /\ storeCall' = [op |-> "setSelectedFabric", id |-> id, before |-> Len(fabrics)]
  /\ UNCHANGED <<fabrics, swapModel>>
  /\ IF id # selectedFabricId
     THEN TextureSwapEffect(swapModel, id, fabrics, materials)
     ELSE UNCHANGED <<materials, textureLoads, textureCache, currentTextureRef>>
  /\ UNCHANGED <<oldVars, dirVars, trackRefVars, loaderVars>>

AddUserFabric(fabric) ==
  /\ Len(fabrics) < Len(PREDEFINED_FABRICS) + MaxUserFabrics
  /\ fabrics' = addUserFabric(fabrics, fabric)
  /\ storeCall' = [op |-> "addUserFabric", id |-> fabric.id, before |-> Len(fabrics)]
  /\ UNCHANGED <<selectedFabricId, swapModel>>
  /\ TextureSwapEffect(swapModel, selectedFabricId, fabrics', materials)
  /\ UNCHANGED <<oldVars, dirVars, trackRefVars, loaderVars>>

RemoveUserFabric(id) ==
  /\ fabrics' = removeUserFabric(fabrics, id)
  /\ storeCall' = [op |-> "removeUserFabric", id |-> id, before |-> Len(fabrics)]
  /\ UNCHANGED <<selectedFabricId, swapModel>>
  /\ TextureSwapEffect(swapModel, selectedFabricId, fabrics', materials)
  /\ UNCHANGED <<oldVars, dirVars, trackRefVars, loaderVars>>

NextStore ==
  \/ \E id \in FabricIds : SetSelectedFabric(id)
  \/ \E fabric \in UserFabricInputs : AddUserFabric(fabric)
  \/ \E id \in FabricIds : RemoveUserFabric(id)

SpecStore == Init /\ [][NextStore]_vars

\* The component renders with a new model (a Group it had not been given before).
ModelChanged ==
  /\ Len(materials) < MaxSwapModels
  /\ Len(textureLoads) < MaxTextureLoads
  /\ swapModel' = Some(Len(materials) + 1)
  /\ TextureSwapEffect(swapModel', selectedFabricId, fabrics, Append(materials, Authored))
  /\ UNCHANGED <<storeVars, oldVars, dirVars, trackRefVars, loaderVars>>

\* The TextureLoader finished request n: the texture is cached and the promise
\* resolves.
TextureLoaded(n) ==
  /\ n \in DOMAIN textureLoads
  /\ textureLoads[n].status = "pending"
  /\ textureLoads' = [textureLoads EXCEPT ![n].status = "loaded"]
  /\ textureCache' = textureCache \cup {textureLoads[n].url}
  /\ materials' = ApplyTexture(materials, textureLoads[n].model, textureLoads[n].url)
  /\ currentTextureRef' = Some(textureLoads[n].url)
  /\ UNCHANGED swapModel
  /\ UNCHANGED <<storeVars, oldVars, dirVars, trackRefVars, loaderVars>>

\* The TextureLoader failed request n: the promise rejects.
TextureFailed(n) ==
  /\ n \in DOMAIN textureLoads
  /\ textureLoads[n].status = "pending"
  /\ textureLoads' = [textureLoads EXCEPT ![n].status = "failed"]
  /\ materials' = ApplyFallback(materials, textureLoads[n].model, textureLoads[n].color)
  /\ UNCHANGED <<swapModel, textureCache, currentTextureRef>>
  /\ UNCHANGED <<storeVars, oldVars, dirVars, trackRefVars, loaderVars>>

NextTexture ==
  \/ \E id \in FabricIds : SetSelectedFabric(id)
  \/ ModelChanged
  \/ \E n \in 1..MaxTextureLoads : TextureLoaded(n)
  \/ \E n \in 1..MaxTextureLoads : TextureFailed(n)

SpecTexture == Init /\ [][NextTexture]_vars

(***************************************************************************)
(* Properties.                                                             *)
(***************************************************************************)
\* The raw targets of the update the pose effect makes with debug values dv and
\* landmarks lm.
UpdateTargets(dv, lm) ==
  IF dv.useManualRotations
  THEN ManualTargets(dv)
  ELSE TrackedTargets(Get(Get(lm).poseLandmarks))

\* The Joint Key has a non-empty Bone Binding.
KeyBound(k) == armBonesRef # None /\ Len(Get(armBonesRef)[k]) > 0

\* The bones of the Bone Binding.
BoundBones == IF armBonesRef = None THEN {} ELSE Range(AllBones(Get(armBonesRef)))

\* C1: the first update of a Joint Key that has no Smoothing State entry sets the
\* smoothed value to the raw target of that update, on all three axes.
C1_FirstUpdateIsExact ==
  [][\A dv \in {debugValues'}, lm \in {landmarks'} :
       \A k \in JointKeys :
         (k \notin DOMAIN smoothRotations /\ k \in DOMAIN smoothRotations')
           => smoothRotations'[k] = UpdateTargets(dv, lm)[k]]_vars

\* A first tracked update has set the left upper arm to a non-zero raw target.
C1_Witness ==
  /\ nUpdates = 1
  /\ ~debugValues.useManualRotations
  /\ HasPose(landmarks)
  /\ "upperarm_l" \in DOMAIN smoothRotations
  /\ smoothRotations["upperarm_l"] = UpdateTargets(debugValues, landmarks)["upperarm_l"]
  /\ smoothRotations["upperarm_l"].y # RZero

\* Every bound bone's Rest Pose entry is the rotation the bone was authored with.
RestIsAuthored ==
  \A id \in BoundBones :
    /\ BoneOf(rigs, id).name \in DOMAIN restRotationsRef
    /\ restRotationsRef[BoneOf(rigs, id).name] = BoneOf(rigs, id).rotation

C3_SmoothingResetOnReplace ==
  [][(nUpdates' = nUpdates + 1 /\ rigUpdates' = 1 /\ Len(rigs') >= 2)
       => \A dv \in {debugValues'}, lm \in {landmarks'} :
            \A k \in JointKeys :
              KeyBound(k)' => smoothRotations'[k] = UpdateTargets(dv, lm)[k]]_vars

\* C4: in tracking mode a commit whose landmark frame is null or has no pose
\* leaves every Smoothing State entry and every bone rotation as they were and
\* writes no bone.
C4_NullFrameChangesNothing ==
  [][(~debugValues'.useManualRotations /\ ~HasPose(landmarks'))
       => /\ smoothRotations' = smoothRotations
          /\ \A id \in DOMAIN rotation : rotation'[id] = rotation[id]
          /\ written' = {}]_vars

\* A frame without a pose has arrived in tracking mode after updates were made.
C4_Witness ==
  /\ model # NoModel
  /\ ~debugValues.useManualRotations
  /\ landmarks = Some(FrameNoPose)
  /\ DOMAIN smoothRotations # {}
  /\ written = {}
  /\ \E id \in BoundBones : rotation[id] # BoneOf(rigs, id).rotation

\* C5: after any update, tracked or manual, all bones bound to the same Joint Key
\* have been written and hold the same rotation.
C5_FanOut ==
  [][nUpdates' = nUpdates + 1
       => \A k \in JointKeys :
            \A a, b \in Range(Get(armBonesRef')[k]) :
              a \in written' /\ rotation'[a] = rotation'[b]]_vars

\* Two bones of the same name in two armatures were written to the same rotation.
C5_Witness ==
  /\ nUpdates >= 1
  /\ \E a, b \in written :
       /\ a[1] = b[1] /\ a[2] # b[2]
       /\ BoneOf(rigs, a).name = BoneOf(rigs, b).name
       /\ rotation[a] = rotation[b]
       /\ rotation[a] # BoneOf(rigs, a).rotation

\* The distance of the smoothed component from the target.
FilterDistance(f) == RAbs(RSub(f.target, f.smooth))

C7_FramesInOrder == [][results' >= results]_vars

\* The results of a second frame have replaced those of an earlier one.
C7_Witness == results >= 4 /\ frameCountRef >= 4

\* C8: a delivered landmark frame is the input of at most one tracked update.
C8_OneStepPerFrame == applied <= 1

\* C9: with manual override on, every commit makes an update from the supplied
\* rotations, landmarks or not: each bound Joint Key's entry goes through the
\* filter (or is created from the supplied rotation), and every bone of its
\* binding is written with rest pose + smoothed rotation.
C9_ManualOverride ==
  [][(model' # NoModel /\ debugValues'.useManualRotations)
       => /\ nUpdates' = nUpdates + 1
          /\ \A old \in {smoothRotations}, new \in {smoothRotations'},
                t \in {ManualTargets(debugValues')}, SMOOTH \in {debugValues'.smoothingFactor},
                rest \in {restRotationsRef'}, rg \in {rigs'} :
               \A k \in JointKeys :
                 \A id \in Range(Get(armBonesRef')[k]) :
                   /\ new[k] = IF k \in DOMAIN old
                               THEN NextSmooth(old[k], t[k].x, t[k].y, t[k].z, SMOOTH)
                               ELSE t[k]
                   /\ id \in written'
                   /\ rotation'[id] = EulerAdd(rest[BoneOf(rg, id).name], new[k])]_vars

\* A manual update was made without any landmark frame, and the left upper arm
\* is on its way to the supplied rotation.
C9_Witness ==
  /\ debugValues.useManualRotations
  /\ landmarks = None
  /\ nUpdates >= 2
  /\ written # {}
  /\ "upperarm_l" \in DOMAIN smoothRotations
  /\ smoothRotations["upperarm_l"].x # RZero
  /\ smoothRotations["upperarm_l"].x # ManualTargets(debugValues)["upperarm_l"].x

\* C10: after a tracked update every written bone has the X and Z rotation of
\* its rest pose.
C10_SingleAxis ==
  [][(nUpdates' = nUpdates + 1 /\ ~debugValues'.useManualRotations)
       => \A id \in written' :
            /\ rotation'[id].x = restRotationsRef'[BoneOf(rigs', id).name].x
            /\ rotation'[id].z = restRotationsRef'[BoneOf(rigs', id).name].z]_vars

\* The lower-cased name of bone i of the skeleton handed to the resolver.
LowerName(i) == toLowerCase(skeleton[i])

\* The fragments of key that some bone of the skeleton matches exactly.
ExactFragments(key) ==
  {p \in 1..Len(BONE_NAME_PATTERNS[key]) :
     \E i \in 1..Len(skeleton) :
       LowerName(i) = toLowerCase(BONE_NAME_PATTERNS[key][p])}

\* C11: for a skeleton that holds both upperarm_l and upperarm_l_twist01, the
\* left-upper-arm key resolves to the arm bone: findBoneByPattern returns a bone
\* named upperarm_l (letter case aside), and the bind effect's matching binds
\* every bone of that name and no bone named upperarm_l_twist01.
C11_TwistNotBound ==
  (/\ boneKey = Some("leftUpperArm")
   /\ \E i \in 1..Len(skeleton) : skeleton[i] = N_upperarm_l
   /\ \E i \in 1..Len(skeleton) : skeleton[i] = N_upperarm_l_twist)
    => /\ found # None
       /\ LowerName(Get(found)) = N_upperarm_l
       /\ \A i \in 1..Len(skeleton) :
            /\ LowerName(i) = N_upperarm_l => i \in Range(matched)
            /\ skeleton[i] = N_upperarm_l_twist => i \notin Range(matched)

\* The twist bone comes first in the skeleton and the arm bone was resolved.
C11_Witness ==
  /\ boneKey = Some("leftUpperArm")
  /\ skeleton = <<N_upperarm_l_twist, N_upperarm_l>>
  /\ found = Some(2)
  /\ matched = <<2>>

\* C12: the resolver's result for a key holds every bone whose name is the key's
\* first fragment, in findBoneByPattern as in the bind effect's matching.
C12_AllMatchesBound ==
  boneKey # None
    => \A i \in 1..Len(skeleton) :
         LowerName(i) = toLowerCase(BONE_NAME_PATTERNS[Get(boneKey)][1])
           => /\ i \in Range(matched)
              /\ found = Some(i)

\* C13: a bone that findBoneByPattern returns from its includes pass has none of
\* the markers twist, corrective, _in, _out, _fwd, _bck in its lower-cased name
\* and, for the upper-arm key, neither bicep nor tricep.
C13_NoMarkerBound ==
  (boneKey # None /\ found # None /\ ExactFragments(Get(boneKey)) = {})
    => /\ NotHelperBone(LowerName(Get(found)))
       /\ Get(boneKey) = "leftUpperArm"
            => /\ ~includes(LowerName(Get(found)), S_bicep)
               /\ ~includes(LowerName(Get(found)), S_tricep)

\* C14: when some bone's name equals a fragment of the key, findBoneByPattern
\* returns a bone whose name equals the first fragment in priority order that
\* has such a bone, whatever the other bones contain; the includes pass decides
\* only when no fragment has an exact match.
C14_ExactBeforeIncludes ==
  boneKey # None
    => \A key \in {Get(boneKey)} :
         IF ExactFragments(key) # {}
         THEN /\ found # None
              /\ \A p \in ExactFragments(key) :
                   (\A q \in ExactFragments(key) : p <= q)
                     => LowerName(Get(found)) = toLowerCase(BONE_NAME_PATTERNS[key][p])
         ELSE found = IncludesPass(skeleton, BONE_NAME_PATTERNS[key], 1)

\* A bone that contains the first fragment comes before a bone that equals the
\* second fragment, and the second bone was returned.
C14_Witness ==
  /\ boneKey = Some("leftUpperArm")
  /\ skeleton = <<N_rig_upperarm_l, N_LeftArm>>
  /\ found = Some(2)

\* C15: in an update, a Joint Key whose Bone Binding is empty gets no Smoothing
\* State entry and no write, while every key with a non-empty binding has an
\* entry afterwards and all its bones written.
C15_EmptyBindingSkipped ==
  [][nUpdates' = nUpdates + 1
       => \A old \in {smoothRotations}, new \in {smoothRotations'},
             bound \in {Get(armBonesRef')}, wr \in {written'} :
            \A k \in JointKeys :
              IF Len(bound[k]) = 0
              THEN /\ k \notin DOMAIN new
                   /\ k \notin DOMAIN old
              ELSE /\ k \in DOMAIN new
                   /\ Range(bound[k]) \subseteq wr]_vars

\* An update was made on a rig without a right forearm: the key has no entry,
\* the left forearm has one and was written.
C15_Witness ==
  /\ nUpdates >= 1
  /\ armBonesRef # None
  /\ Len(Get(armBonesRef)["lowerarm_r"]) = 0
  /\ "lowerarm_r" \notin DOMAIN smoothRotations
  /\ "lowerarm_l" \in DOMAIN smoothRotations
  /\ Len(Get(armBonesRef)["lowerarm_l"]) > 0
  /\ Range(Get(armBonesRef)["lowerarm_l"]) \subseteq written

\* C17: after an update every bone of a Bone Binding holds the rotation it had
\* when it was bound plus the smoothed rotation of its Joint Key, also when
\* another armature of the rig has a bone of the same name with another rotation.
C17_OwnRestPose ==
  [][nUpdates' = nUpdates + 1
       => \A rot \in {rotation'}, sm \in {smoothRotations'},
             bound \in {Get(armBonesRef')}, rg \in {rigs'} :
            \A k \in JointKeys :
              \A id \in Range(bound[k]) :
                rot[id] = EulerAdd(BoneOf(rg, id).rotation, sm[k])]_vars

\* C16: once the jacket prop is replaced or removed, nothing of the previous
\* instance is kept: the skeleton the hook holds (and with it the rest poses)
\* is of the current jacket, and a commit writes no bone of another instance.
C16_PreviousRigDropped ==
  /\ skeletonRef # None => Get(skeletonRef)[1] = jacketModel
  /\ \A id \in jWritten : id[1] = jacketModel

\* C18: while the current jacket has no skeleton, first or replacement, a
\* commit writes no bone quaternion.
C18_NoSkeletonNoWrites ==
  (jacketModel # NoModel /\ LastSkeleton(jacketRigs, jacketModel) = 0) => jWritten = {}

\* The joints the frame effect reads.
RequiredJoints ==
  {LEFT_SHOULDER, RIGHT_SHOULDER, LEFT_ELBOW, RIGHT_ELBOW,
   LEFT_WRIST, RIGHT_WRIST, LEFT_HIP, RIGHT_HIP}

Malformed(lm) == HasPose(lm) /\ Missing(Get(Get(lm).poseLandmarks), RequiredJoints)

\* C19: a run of the frame effect on a frame that lacks a required joint
\* leaves every smoothing state and every bone quaternion as it was.
C19_MalformedFrameIgnored ==
  [][ (Malformed(jacketLandmarks') /\ jacketFrameCount' # jacketFrameCount)
      => /\ \A n \in DOMAIN prevBones : prevBones'[n] = prevBones[n]
         /\ \A id \in DOMAIN quaternion : quaternion'[id] = quaternion[id] ]_vars

\* C20: on the frame whose limbs lie along the configured rest directions,
\* the target of every bone the commit drove is that bone's captured rest pose.
C20_RestFrameIdentity ==
  jacketLandmarks = Some(FrameBind)
    => \A n \in DOMAIN jTargets : n \in DOMAIN restPosesRef /\ jTargets[n] = restPosesRef[n]

\* C21: each of the two functions returns a rotation (a quaternion of length 1)
\* for every pair of directions, and the identity when the observed direction
\* has zero length.
C21_DegenerateDirections ==
  dirQuat # None
    => \A q \in {Get(dirQuat).fromDirections, Get(dirQuat).betweenVectors} :
         /\ q.lengthSq = ROne
         /\ IsZeroVector(dirTo) => q.angle = QIdentity

\* The landmark list of a frame with a pose.
PoseOf(f) == Get(f.poseLandmarks)

\* a is within one degree of b.
WithinOneDegree(a, b) == RLe(RAbs(RSub(a, b)), DEG2RAD)

UpperArmKeys == {"upperarm_l", "upperarm_r"}

InCalibratedRange(v) == RLe(Deg(Y_ROTATION_T_POSE), v) /\ RLe(v, Deg(Y_ROTATION_ARMS_DOWN))

\* C24: without manual override, the arm ratio of every frame is in [0, 1] (1
\* when the elbow is at or above the shoulder), and the raw target and the
\* smoothed y of each upper arm lie between the T-pose and arms-down angles.
C24_RatioClamped ==
  /\ \A k \in UpperArmKeys :
       k \in DOMAIN smoothRotations => InCalibratedRange(smoothRotations[k].y)
  /\ HasPose(landmarks)
       => \A pose \in {PoseOf(Get(landmarks))} :
            /\ \A k \in UpperArmKeys : InCalibratedRange(TrackedTargets(pose)[k].y)
            /\ \A side \in {<<LEFT_SHOULDER, LEFT_ELBOW>>, <<RIGHT_SHOULDER, RIGHT_ELBOW>>} :
                 \A ratio \in {calcArmRatio(pose[side[1]], pose[side[2]])} :
                   /\ RLe(RZero, ratio) /\ RLe(ratio, ROne)
                   /\ RLe(pose[side[2]].y, pose[side[1]].y) => ratio = ROne

\* An elbow above its shoulder: the ratio is 1 and the smoothed value of that
\* arm has moved toward the T-pose angle.
C24_Witness ==
  /\ landmarks = Some(FrameMixed)
  /\ nUpdates >= 2
  /\ \E k \in UpperArmKeys :
       /\ k \in DOMAIN smoothRotations
       /\ TrackedTargets(PoseOf(FrameMixed))[k].y = Deg(Y_ROTATION_T_POSE)
       /\ smoothRotations[k].y # Deg(Y_ROTATION_T_POSE)
       /\ smoothRotations[k].y # Deg(Y_ROTATION_ARMS_DOWN)

\* C25: every call of onFrame counts the frame and sends it to the estimator
\* exactly when the count is even; the cleanup stops the camera, closes the
\* estimator and sets the count to 0, after which no frame is counted or sent.
C25_EverySecondFrame ==
  [][/\ frameCountRef' = frameCountRef + 1
          => /\ cameraRef # None /\ poseRef # None
             /\ (estimating' # estimating) <=> (frameCountRef' % 2 = 0)
             /\ estimating' # estimating => estimating' = estimating \cup {videoTime}
     /\ (cameraRef # None /\ cameraRef' = None)
          => poseRef' = None /\ frameCountRef' = 0
     /\ cameraRef = None
          => /\ cameraRef' = None /\ poseRef' = None
             /\ frameCountRef' = 0 /\ estimating' = estimating]_vars

\* Four frames were delivered, the second and the fourth were sent and estimated,
\* and then the cleanup ran.
C25_Witness ==
  /\ cameraRef = None
  /\ poseRef = None
  /\ frameCountRef = 0
  /\ lastTime >= 4
  /\ results >= 4

\* C23: in the first run of the frame effect that reaches the bones, the
\* smoothed rotation of every bone name it drives is the raw target of that run.
C23_FirstJacketUpdateExact ==
  [][(~bonesInitialized /\ bonesInitialized')
       => \A new \in {prevBones'}, t \in {jTargets'} :
            \A n \in DOMAIN t : n \in DOMAIN new => new[n] = t[n]]_vars

\* The name the skeleton gives to bone id.
JacketBoneName(rg, id) == SkeletonBones(rg, id)[id[3]].name

ArmBoneNames == {N_upperarm_l, N_lowerarm_l, N_upperarm_r, N_lowerarm_r}

\* C27: with one jacket loaded, every bone a commit writes is left equal to the
\* smoothing state kept for that bone, and on the frame whose limbs lie along
\* the rest directions the target of every arm bone is that bone's own captured
\* rest pose, whatever the letter case of its name.
C27_CaseInsensitiveDrive ==
  [][Len(jacketRigs') = 1
       => \A rg \in {jacketRigs'}, q \in {quaternion'}, st \in {prevBones'},
             rest \in {restPosesRef'}, t \in {jTargets'} :
            \A id \in jWritten' :
              \A name \in {JacketBoneName(rg, id)} :
                /\ name \in DOMAIN st /\ st[name] = q[id]
                /\ (jacketLandmarks' = Some(FrameBind) /\ toLowerCase(name) \in ArmBoneNames)
                     => /\ name \in DOMAIN rest
                        /\ t[toLowerCase(name)] = rest[name]]_vars

\* C26: when JacketModel unmounts, and when TryOnCanvas unmounts or is given another
\* body type, the geometry and materials of the model the component had loaded (the
\* one in its state) are disposed by that commit.
C26_LoadedModelDisposed ==
  [][ /\ ( /\ canvasMounted
           /\ bodyModel # None
           /\ (~canvasMounted' \/ selectedBodyType' # selectedBodyType) )
         => Get(bodyModel) \in disposed'
      /\ (jacketMounted /\ ~jacketMounted' /\ loadedJacket # None)
         => jacketDisposed' ]_vars

\* C29: once the load started for the most recently selected body type has completed,
\* the model TryOnCanvas hands to the rigging hook is the Group of that load, whatever
\* loads of earlier selections complete afterwards.
C29_LatestSelectionBound ==
  \A n \in DOMAIN bodyLoads :
    ( /\ canvasMounted
      /\ bodyLoads[n].run = LastRun(bodyLoads)
      /\ bodyLoads[n].status = "loaded" )
    => bodyModel = Some(n)

\* No texture request of useTextureSwap is pending.
Settled == \A n \in DOMAIN textureLoads : textureLoads[n].status # "pending"

\* The materials mat show fabric f: a color fabric shows as its color without a map,
\* a texture fabric as its texture (nothing is asked when a request for it failed).
Shows(mat, f) ==
  IF f.type = "color"
  THEN mat.map = None /\ mat.color = Get(f.color)
  ELSE \/ mat.map = f.textureUrl
       \/ \E n \in DOMAIN textureLoads :
            textureLoads[n].url = Get(f.textureUrl) /\ textureLoads[n].status = "failed"

\* C28: once every pending texture load has settled, the materials of the current model
\* show the fabric selected last.
C28_LatestFabricShown ==
  (Settled /\ swapModel # None /\ findFabric(fabrics, selectedFabricId) # None)
  => Shows(materials[Get(swapModel)], Get(findFabric(fabrics, selectedFabricId)))

\* The number of entries of fs equal to e.
Count(fs, e) == Cardinality({i \in DOMAIN fs : fs[i] = e})

\* C30: after every call every predefined fabric is in the fabrics list;
\* removeUserFabric(id) removes the entries that have that id and are user-uploaded
\* and no other; addUserFabric appends one entry, marked user-uploaded;
\* setSelectedFabric leaves the list alone.
C30_PredefinedFabricsKept ==
  [][ /\ \A i \in DOMAIN PREDEFINED_FABRICS : PREDEFINED_FABRICS[i] \in Range(fabrics')
      /\ storeCall'.op = "removeUserFabric"
         => /\ Range(fabrics') \subseteq Range(fabrics)
            /\ \A e \in Range(fabrics) :
                 Count(fabrics', e) =
                   IF e.id = storeCall'.id /\ Truthy(e.isUserUploaded)
                   THEN 0 ELSE Count(fabrics, e)
      /\ storeCall'.op = "addUserFabric"
         => /\ Len(fabrics') = Len(fabrics) + 1
            /\ SubSeq(fabrics', 1, Len(fabrics)) = fabrics
            /\ fabrics'[Len(fabrics')].id = storeCall'.id
            /\ Truthy(fabrics'[Len(fabrics')].isUserUploaded)
      /\ storeCall'.op = "setSelectedFabric" => fabrics' = fabrics ]_vars

\* removeUserFabric("denim") removed the uploaded fabric of that id, kept the predefined
\* denim and another upload, which had said it was not user-uploaded.
C30_Witness ==
  /\ storeCall.op = "removeUserFabric"
  /\ storeCall.id = "denim"
  /\ Len(fabrics) = storeCall.before - 1
  /\ Len(fabrics) = Len(PREDEFINED_FABRICS) + 1
  /\ fabrics[Len(fabrics)].id = "custom-2"
  /\ Truthy(fabrics[Len(fabrics)].isUserUploaded)
  /\ PREDEFINED_FABRICS[6] \in Range(fabrics)

====
